---- MODULE Spec2Model ----
(***************************************************************************)
(* Model of the Math Trainer client: the session/auth controller           *)
(* (src/context/AppContext.tsx), the quiz screen (QuizScreen in            *)
(* src/unnamed/part_006), its countdown (Timer in                          *)
(* src/components/ui/Header.tsx) and the question generator                *)
(* (src/services/quizService.ts).                                          *)
(*                                                                         *)
(* React semantics kept by the model (production build, where StrictMode   *)
(* does not double-invoke):                                                *)
(*  - a handler reads the state of the render that created it: `rendered`  *)
(*    holds the values closed over by the callbacks of the last committed  *)
(*    render of QuizScreen, while question/questionIndex/results/          *)
(*    isAnswered hold the latest state (all queued updates applied);       *)
(*  - an update made inside a DOM event (submit, click) is rendered        *)
(*    before the event returns; an update made inside a timer callback is  *)
(*    rendered by a later task (the action Render);                        *)
(*  - a setTimeout callback keeps the closure it was created with and is   *)
(*    not cancelled when the component unmounts;                           *)
(*  - a state setter of an unmounted component does nothing.               *)
(***************************************************************************)
EXTENDS Integers, Sequences, FiniteSets, TLC

\* ------------------------------------------------------------------ bounds

\* Answers of one quiz session that are not the right answer typed by the
\* user: a wrong or empty submission, or the empty answer of an expired timer.
MaxOdd == 1

\* Remote calls in flight at once.
MaxInflight == 2

\* Rows of the remote progress table.
MaxRows == 2

\* Requests the user makes of the controller in one run (login, logout,
\* signUp, addUser, updateUser, deleteUser, startQuiz), and auth events the
\* collaborator raises on its own.
MaxActs == 2

\* Remote calls that fail in one run.
MaxFaults == 1

\* ------------------------------------------------------- program constants

TOTAL_QUESTIONS == 10

TIMER_OPTIONS == {8, 4, 3}

\* Resolution of Math.random(): the draw r stands for the real r / RandRes.
RandRes == 32

\* The absent value (null / undefined) of an object, and of an id.
Null == [null |-> TRUE]
NoId == "null"

VARIABLES
    \* QuizScreen (one mounted instance)
    mounted,        \* QuizScreen is mounted
    mountPending,   \* its mount effect has not run yet
    question,       \* useState<Question | null>
    questionIndex,  \* useState(0)
    results,        \* useState<QuizResult[]>
    isAnswered,     \* useState(false)
    rendered,       \* what the callbacks of the last committed render closed over
    timer,          \* the Timer component: its interval and timeLeft
    timeouts,       \* pending setTimeout(() => nextQuestion(), 1500) callbacks, oldest first
    rng,            \* state of the generator behind Math.random(), as far as the
                    \* questions of the mounted session depend on it
    elapsed,        \* Date.now() - startTime in whole seconds, as the interval
                    \* callbacks of Timer let it pass
    odd,            \* answers so far that count towards MaxOdd
    \* AppProvider
    isLoading, users, progressData, currentUser, view, quizSettings, quizResults,
    \* the remote collaborator
    identities,     \* ids of the users that can authenticate
    profiles,       \* table profiles
    progress,       \* table progress, in insertion order
    notifs,         \* auth notifications not yet delivered, oldest first
    \* asynchronous calls of the controller that are suspended at an await
    procs,
    \* history
    asked,          \* questions generated for the mounted session, in order
    answeredOk,     \* positions in `asked` for which a correct answer was recorded
    handed,         \* summaries passed to finishQuiz by the session, in order
    returned,       \* what the controller call that returned last gave its caller,
                    \* and how many calls have returned
    exited,         \* "no", or when the user left QuizScreen (Exit, or the logo of
                    \* Header): "during" the session (no summary handed to
                    \* finishQuiz yet) or "after" it
    authLog,        \* the auth notifications delivered so far: how many, the user
                    \* of the last one, whether its handler loaded a profile, and
                    \* the view it found when it did
    reads,          \* the reads of the two caches: how many were issued, the
                    \* number of the read each suspended call waits for, and the
                    \* number of the latest read each cache was filled from
    acts,           \* requests made so far (bounded by MaxActs)
    faults          \* remote calls that failed so far (bounded by MaxFaults)

screenVars == <<mounted, mountPending, question, questionIndex, results, isAnswered,
                rendered, timer, elapsed, rng, asked, answeredOk>>
quizVars == <<screenVars, timeouts, odd>>
ctlVars == <<isLoading, users, progressData, currentUser, view, quizSettings, quizResults>>
storeVars == <<identities, profiles, progress, notifs>>
histVars == <<handed, exited, returned>>
readVars == <<reads>>
auxVars == <<authLog, acts, faults>>
vars == <<quizVars, ctlVars, storeVars, procs, histVars, readVars, auxVars>>

\* ------------------------------------------------------- question generator

\* Math.random(): the generator's state is the draw; NextRand steps it.
NextRand(x) == (5 * x + 3) % RandRes

\* Seeded fault for C28: a getRandomInt whose range is one too wide.
getRandomIntTooWide(min, max, r) == ((r * (max - min + 2)) \div RandRes) + min

\* getRandomInt(min, max) for the draw r, that is Math.random() = r / RandRes.
getRandomInt(min, max, r) == ((r * (max - min + 1)) \div RandRes) + min

\* Seeded fault for C29: a generator that draws the subtrahend from the
\* minuend's range.
generateQuestionFreeSubtrahend(operation, stage, r1, r2) ==
    CASE operation = "addition" ->
           LET hi == IF stage = 1 THEN 5 ELSE IF stage = 2 THEN 10 ELSE 20
               num1 == getRandomInt(0, hi, r1)
               num2 == getRandomInt(0, hi, r2)
           IN  [text |-> <<num1, "+", num2>>, answer |-> num1 + num2]
      [] operation = "subtraction" ->
           LET hi == IF stage = 1 THEN 10 ELSE 20
               num1 == getRandomInt(1, hi, r1)
               num2 == getRandomInt(0, hi, r2)
           IN  [text |-> <<num1, "-", num2>>, answer |-> num1 - num2]
      [] operation = "multiplication" ->
           LET num1 == IF stage = 1 THEN getRandomInt(1, 5, r1)
                       ELSE IF stage = 2 THEN getRandomInt(6, 10, r1)
                       ELSE getRandomInt(1, 10, r1)
               num2 == IF stage = 1 THEN getRandomInt(1, 5, r2) ELSE getRandomInt(1, 10, r2)
           IN  [text |-> <<num1, "x", num2>>, answer |-> num1 * num2]
      [] OTHER -> [text |-> <<1, "+", 1>>, answer |-> 2]

\* generateQuestion(operation, stage) for the two draws r1, r2 it makes.
generateQuestion(operation, stage, r1, r2) ==
    CASE operation = "addition" ->
           LET hi == IF stage = 1 THEN 5 ELSE IF stage = 2 THEN 10 ELSE 20
               num1 == getRandomInt(0, hi, r1)
               num2 == getRandomInt(0, hi, r2)
           IN  [text |-> <<num1, "+", num2>>, answer |-> num1 + num2]
      [] operation = "subtraction" ->
           LET num1 == IF stage = 1 THEN getRandomInt(1, 10, r1) ELSE getRandomInt(1, 20, r1)
               num2 == getRandomInt(0, num1, r2)
           IN  [text |-> <<num1, "-", num2>>, answer |-> num1 - num2]
      [] operation = "multiplication" ->
           LET num1 == IF stage = 1 THEN getRandomInt(1, 5, r1)
                       ELSE IF stage = 2 THEN getRandomInt(6, 10, r1)
                       ELSE getRandomInt(1, 10, r1)
               num2 == IF stage = 1 THEN getRandomInt(1, 5, r2) ELSE getRandomInt(1, 10, r2)
           IN  [text |-> <<num1, "x", num2>>, answer |-> num1 * num2]
      [] OTHER -> [text |-> <<1, "+", 1>>, answer |-> 2]

\* --------------------------------------------------- the typed answer string

\* A string is the sequence of its characters.
DigitChars == <<"0", "1", "2", "3", "4", "5", "6", "7", "8", "9">>

IsDigit(c) == \E d \in 1..10 : DigitChars[d] = c

DigitVal(c) == (CHOOSE d \in 1..10 : DigitChars[d] = c) - 1

\* String(n) for a natural number n.
RECURSIVE NumberToString(_)
NumberToString(n) ==
    IF n < 10 THEN <<DigitChars[n + 1]>>
    ELSE Append(NumberToString(n \div 10), DigitChars[(n % 10) + 1])

\* The digits parseInt reads: the longest prefix of digits, as a number.
RECURSIVE ReadDigits(_, _)
ReadDigits(s, acc) ==
    IF s = <<>> \/ ~IsDigit(Head(s)) THEN acc
    ELSE ReadDigits(Tail(s), 10 * acc + DigitVal(Head(s)))

\* parseInt(s, 10): an optional sign, then digits up to the first other
\* character; NaN when no digit is read.
parseInt(s) ==
    LET neg == s # <<>> /\ Head(s) = "-"
        body == IF s # <<>> /\ Head(s) \in {"-", "+"} THEN Tail(s) ELSE s
    IN  IF body = <<>> \/ ~IsDigit(Head(body)) THEN [kind |-> "NaN"]
        ELSE [kind |-> "number",
              val |-> IF neg THEN 0 - ReadDigits(body, 0) ELSE ReadDigits(body, 0)]

\* Seconds into a question at which the user submits the form; the user may
\* also submit when the countdown has just expired.
AnswerDelays == {0}

\* States of Math.random()'s generator that a session starts from.
Seeds == {0}

\* What the user may have typed when submitting the form for question q: the
\* right answer, a wrong number, or nothing.
RightInput(q) == NumberToString(q.answer)
WrongInputs(q) == {NumberToString(q.answer + 1), <<>>}

\* ----------------------------------------------------- progress normalizer

EmptyObject == [k \in {} |-> Null]

\* obj[key] = value on a copy of obj.
SetKey(obj, key, value) ==
    [k \in (DOMAIN obj) \cup {key} |-> IF k = key THEN value ELSE obj[k]]

\* The template string `stage${stage}`.
StageKey(stage) ==
    CASE stage = 1 -> "stage1" [] stage = 2 -> "stage2" [] stage = 3 -> "stage3"
      [] OTHER -> "stageN"

\* Seeded fault for C22: a transform loop that gives every student an entry for
\* addition, with or without a record.
RECURSIVE transformLoopWithPlaceholders(_, _)
transformLoopWithPlaceholders(data, transformedData) ==
    IF data = <<>> THEN transformedData
    ELSE LET record == Head(data)
             studentId == record.user_id
             withStudent == IF studentId \in DOMAIN transformedData
                            THEN transformedData
                            ELSE SetKey(transformedData, studentId,
                                        SetKey(EmptyObject, "addition", EmptyObject))
             studentProgress == withStudent[studentId]
             withOperation == IF record.operation \in DOMAIN studentProgress
                              THEN studentProgress
                              ELSE SetKey(studentProgress, record.operation, EmptyObject)
             stages == SetKey(withOperation[record.operation],
                              StageKey(record.stage), record.score)
         IN  transformLoopWithPlaceholders(Tail(data),
                 SetKey(withStudent, studentId,
                        SetKey(withOperation, record.operation, stages)))

\* The transform loop of fetchAllProgressData over the fetched rows, oldest first.
RECURSIVE transformLoop(_, _)
transformLoop(data, transformedData) ==
    IF data = <<>> THEN transformedData
    ELSE LET record == Head(data)
             studentId == record.user_id
             withStudent == IF studentId \in DOMAIN transformedData
                            THEN transformedData
                            ELSE SetKey(transformedData, studentId, EmptyObject)
             studentProgress == withStudent[studentId]
             withOperation == IF record.operation \in DOMAIN studentProgress
                              THEN studentProgress
                              ELSE SetKey(studentProgress, record.operation, EmptyObject)
             stages == SetKey(withOperation[record.operation],
                              StageKey(record.stage), record.score)
         IN  transformLoop(Tail(data),
                 SetKey(withStudent, studentId,
                        SetKey(withOperation, record.operation, stages)))

\* ------------------------------------------------- suspended controller calls

Idle == [op |-> "idle"]

FreeSlots == {i \in 1..MaxInflight : procs[i] = Idle}

\* A new suspended call takes the lowest free slot.
Spawn(p) == [procs EXCEPT ![CHOOSE i \in FreeSlots : \A j \in FreeSlots : i <= j] = p]

\* The remote call answered in this step succeeds (ok) or is one of the calls
\* that fail.
Outcome(ok) ==
    /\ ~ok => faults < MaxFaults
    /\ faults' = IF ok THEN faults ELSE faults + 1

\* The message of the error the collaborator gives for a rejected call.
ErrorMessage(call) ==
    CASE call = "signInWithPassword" -> "Invalid login credentials"
      [] call = "signUp" -> "User already registered"
      [] call = "link" -> "violates foreign key constraint"
      [] call = "update" -> "violates row-level security policy"
      [] OTHER -> "error"

\* What a call gives its caller: { success, message } (the message as the
\* pieces of its template string), or undefined for a Promise<void>.
Result(success, message) == [success |-> success, message |-> message]
Undefined == [undefined |-> TRUE]

\* The call op returns value to its caller.
Ret(op, value) == [k |-> returned.k + 1, op |-> op, value |-> value]

\* No read issued yet.
NoReads == [n |-> 0, at |-> [i \in 1..MaxInflight |-> 0], users |-> 0, progress |-> 0]

\* The suspended call p waits for a read of the caches (fetchAllUsers or
\* fetchAllProgressData, between its select and its set).
Waits(p) == p # Idle /\ p.pc \in {"selectUsers", "selectProgress"}

\* `reads` after a step of the suspended calls: a call that starts to wait for
\* a read has issued the next one; a call that leaves a read with a response
\* without error has filled the cache from it.
Tracked ==
    LET issued == {i \in 1..MaxInflight :
                      Waits(procs'[i]) /\ (~Waits(procs[i]) \/ procs[i].pc # procs'[i].pc)}
        filled(pc) == {i \in 1..MaxInflight :
                          /\ Waits(procs[i]) /\ procs[i].pc = pc
                          /\ procs[i].data # Null /\ procs'[i] # procs[i]
                          /\ ~procs[i].data.error}
        latest(pc, now) == IF filled(pc) = {} THEN now
                           ELSE LET i == CHOOSE j \in filled(pc) : TRUE
                                IN  IF reads.at[i] > now THEN reads.at[i] ELSE now
    IN  [n |-> reads.n + Cardinality(issued),
         at |-> [i \in 1..MaxInflight |->
                    IF i \in issued THEN reads.n + 1
                    ELSE IF Waits(procs'[i]) THEN reads.at[i] ELSE 0],
         users |-> latest("selectUsers", reads.users),
         progress |-> latest("selectProgress", reads.progress)]

\* --------------------------------------------------------------- QuizScreen

\* Timer: whether the interval of its last effect is running, timeLeft, the
\* number of intervals set and not cleared, and the timerKey of the render
\* whose effect set the last one.
TimerOff == [active |-> FALSE, timeLeft |-> 0, live |-> 0, timerKey |-> 0]

\* Seeded fault for C32: an effect that returns no cleanup.
TimerCleanupMissing(t) == t

\* The cleanup returned by Timer's effect, run before the effect runs again
\* and when Timer leaves the tree: clearInterval(interval).
TimerCleanup(t) == TimerOff

\* Timer's effect on the timer t its cleanup left: setTimeLeft(initialTime),
\* and an interval unless initialTime <= 0.
TimerStart(t, initialTime, timerKey) ==
    [active |-> initialTime > 0,
     timeLeft |-> initialTime,
     live |-> IF initialTime > 0 THEN t.live + 1 ELSE t.live,
     timerKey |-> timerKey]

\* The values the callbacks of a render of QuizScreen close over: its own state,
\* quizSettings, and (through finishQuiz) currentUser.
Closure(qs, cu, q, qi, res, ans) ==
    [quizSettings |-> qs, currentUser |-> cu, question |-> q,
     questionIndex |-> qi, results |-> res, isAnswered |-> ans]

NoRender == [none |-> TRUE]

\* A render of the mounted QuizScreen is committed: the callbacks are the new
\* ones, and Timer (rendered once there is a question) re-runs its effect because
\* onTimeUp changed.
Commit ==
    /\ rendered' = Closure(quizSettings', currentUser', question', questionIndex',
                           results', isAnswered')
    /\ timer' = IF question' = Null \/ quizSettings' = Null THEN TimerCleanup(timer)
                ELSE TimerStart(TimerCleanup(timer), quizSettings'.timer, questionIndex')

\* QuizScreen leaves the tree: its state is dropped and Timer's cleanup clears
\* the interval. Pending setTimeout callbacks stay.
Unmount ==
    /\ mounted' = FALSE
    /\ mountPending' = FALSE
    /\ question' = Null
    /\ questionIndex' = 0
    /\ results' = <<>>
    /\ isAnswered' = FALSE
    /\ rendered' = NoRender
    /\ timer' = TimerCleanup(timer)
    /\ elapsed' = 0
    /\ rng' = CHOOSE x \in Seeds : TRUE
    /\ asked' = <<>>
    /\ answeredOk' = {}

\* The else-branch of nextQuestion run from closure c: the state setters act on
\* the latest state of the mounted component and do nothing after unmount.
nextQuestionAdvance(c) ==
    LET q == generateQuestion(c.quizSettings.operation, c.quizSettings.stage,
                              rng, NextRand(rng))
    IN  IF mounted
           THEN /\ rng' = NextRand(NextRand(rng))
                /\ isAnswered' = FALSE
                /\ question' = q
                /\ questionIndex' = questionIndex + 1
                /\ elapsed' = 0
                /\ asked' = Append(asked, q)
           ELSE UNCHANGED <<rng, isAnswered, question, questionIndex, elapsed, asked>>

\* The summary nextQuestion builds from closure c. (k / 10) * 100 is exact in
\* double arithmetic for every k in 0..10.
RECURSIVE SumTimeTaken(_)
SumTimeTaken(rs) == IF rs = <<>> THEN 0 ELSE Head(rs).timeTaken + SumTimeTaken(Tail(rs))

\* Seeded fault for C25: a summary whose totalTime is taken from the latest
\* results instead of those of the closure.
SummaryOfLatestTimes(c) ==
    LET correct == {i \in 1..Len(c.results) : c.results[i].isCorrect}
    IN  [settings |-> c.quizSettings,
         results |-> c.results,
         score |-> (Cardinality(correct) * 100) \div TOTAL_QUESTIONS,
         totalTime |-> SumTimeTaken(results)]

SummaryOf(c) ==
    LET correct == {i \in 1..Len(c.results) : c.results[i].isCorrect}
    IN  [settings |-> c.quizSettings,
         results |-> c.results,
         score |-> (Cardinality(correct) * 100) \div TOTAL_QUESTIONS,
         totalTime |-> SumTimeTaken(c.results)]

\* Seeded fault for C35: a handleAnswerSubmit that records the result and
\* schedules no advance.
handleAnswerSubmitNoDelay(c, answerStr, sinceStart) ==
    IF c.isAnswered \/ c.question = Null
    THEN UNCHANGED <<isAnswered, results, timeouts, answeredOk>>
    ELSE LET answerNum == IF answerStr = <<>> THEN Null ELSE parseInt(answerStr)
             isCorrect == answerNum = [kind |-> "number", val |-> c.question.answer]
         IN  /\ isAnswered' = TRUE
             /\ results' = Append(results, [question |-> c.question,
                                            userAnswer |-> answerNum,
                                            isCorrect |-> isCorrect,
                                            timeTaken |-> sinceStart])
             /\ timeouts' = timeouts
             /\ answeredOk' = IF isCorrect THEN answeredOk \cup {c.questionIndex}
                              ELSE answeredOk

\* handleAnswerSubmit(answerStr) of the render with closure c, called when
\* Date.now() - startTime is sinceStart milliseconds. timeTaken, the double
\* sinceStart / 1000, is kept as sinceStart.
handleAnswerSubmit(c, answerStr, sinceStart) ==
    IF c.isAnswered \/ c.question = Null
    THEN UNCHANGED <<isAnswered, results, timeouts, answeredOk>>
    ELSE LET answerNum == IF answerStr = <<>> THEN Null ELSE parseInt(answerStr)
             isCorrect == answerNum = [kind |-> "number", val |-> c.question.answer]
         IN  /\ isAnswered' = TRUE
             /\ results' = Append(results, [question |-> c.question,
                                            userAnswer |-> answerNum,
                                            isCorrect |-> isCorrect,
                                            timeTaken |-> sinceStart])
             /\ timeouts' = Append(timeouts, c)
             /\ answeredOk' = IF isCorrect THEN answeredOk \cup {c.questionIndex}
                              ELSE answeredOk

\* finishQuiz(summary) as created by a render in which currentUser was cu, up to
\* its first await (the insert into progress).
finishQuiz(cu, summary) ==
    IF cu = Null \/ cu.role # "student"
    THEN UNCHANGED <<quizResults, procs>>
    ELSE /\ quizResults' = summary
         /\ procs' = Spawn([op |-> "finishQuiz", pc |-> "insert",
                            currentUser |-> cu, summary |-> summary, data |-> Null])

\* The mount effect of QuizScreen: nextQuestion() of the first render, and the
\* render that follows within the same commit.
MountEffect ==
    /\ UNCHANGED auxVars
    /\ mounted /\ mountPending
    /\ mountPending' = FALSE
    /\ UNCHANGED <<results, timeouts, odd, mounted>>
    /\ UNCHANGED <<ctlVars, storeVars, procs, answeredOk, handed, exited, returned>>
    /\ IF rendered.quizSettings = Null
       THEN UNCHANGED <<rng, isAnswered, question, questionIndex, elapsed, asked>>
       ELSE nextQuestionAdvance(rendered)
    /\ Commit
    /\ UNCHANGED reads

\* A render is scheduled: the state differs from what was last rendered.
RenderPending ==
    rendered # Closure(quizSettings, currentUser, question, questionIndex,
                       results, isAnswered)

\* The interval of Timer may call back: its callbacks are 1000 ms apart, a
\* scheduled render takes place within the frame, and a pending 1500 ms
\* timeout fires before the second callback that follows its scheduling.
IntervalDue ==
    /\ mounted /\ timer.active
    /\ ~RenderPending
    /\ timeouts = <<>> \/ timer.timeLeft = rendered.quizSettings.timer

\* React commits the render scheduled by updates made outside a DOM event.
Render ==
    /\ UNCHANGED auxVars
    /\ mounted /\ ~mountPending
    /\ RenderPending
    /\ UNCHANGED <<mounted, mountPending, question, questionIndex, results, isAnswered,
                   elapsed, timeouts, rng, odd>>
    /\ UNCHANGED <<ctlVars, storeVars, procs, asked, answeredOk, histVars>>
    /\ Commit
    /\ UNCHANGED reads

\* The form's onSubmit (Enter in the answer field, which is disabled once the
\* rendered isAnswered is true): handleAnswerSubmit(userAnswer), rendered before
\* the event returns.
handleSubmitFormWith(answerStr) ==
    /\ UNCHANGED auxVars
    /\ mounted /\ ~mountPending
    /\ rendered.question # Null
    /\ ~rendered.isAnswered
    /\ elapsed \in AnswerDelays \/ ~timer.active
    /\ odd' = IF answerStr = RightInput(rendered.question) THEN odd ELSE odd + 1
    /\ odd' <= MaxOdd
    /\ handleAnswerSubmit(rendered, answerStr, elapsed * 1000)
    /\ UNCHANGED <<mounted, mountPending, question, questionIndex, elapsed, rng>>
    /\ UNCHANGED <<ctlVars, storeVars, procs, asked, handed, exited, returned>>
    /\ Commit
    /\ UNCHANGED reads

\* The interval callback of Timer while more than one second is left.
TimerTick ==
    /\ UNCHANGED auxVars
    /\ IntervalDue /\ timer.timeLeft > 1
    /\ timer' = [timer EXCEPT !.timeLeft = @ - 1]
    /\ elapsed' = elapsed + 1
    /\ UNCHANGED <<mounted, mountPending, question, questionIndex, results, isAnswered,
                   rendered, timeouts, rng, odd>>
    /\ UNCHANGED <<ctlVars, storeVars, procs, asked, answeredOk, histVars>>
    /\ UNCHANGED reads

\* Milliseconds by which the interval callback that ends a question comes
\* after startTime + 1000 * initialTime: setInterval never calls back early,
\* and the interval starts in an effect, after the Date.now() that set startTime.
Lateness == {0, 4}

\* Seeded fault for C24: a handleTimeUp that submits what the answer field
\* holds.
handleTimeUpSubmitsField ==
    /\ UNCHANGED auxVars
    /\ IntervalDue /\ timer.timeLeft <= 1
    /\ timer' = TimerOff
    /\ odd' = IF rendered.isAnswered THEN odd ELSE odd + 1
    /\ odd' <= MaxOdd
    /\ elapsed' = elapsed + 1
    /\ \E late \in Lateness :
          handleAnswerSubmit(rendered, RightInput(rendered.question),
                             (elapsed + 1) * 1000 + late)
    /\ UNCHANGED <<mounted, mountPending, question, questionIndex, rendered, rng>>
    /\ UNCHANGED <<ctlVars, storeVars, procs, asked, handed, exited, returned>>
    /\ UNCHANGED reads

\* The interval callback of Timer at prevTime <= 1: clearInterval, then
\* onTimeUp(), which is handleTimeUp of the render whose effect started the
\* interval: handleAnswerSubmit(''). The updates are rendered by a later task.
onTimeUp(late) ==
    /\ UNCHANGED auxVars
    /\ IntervalDue /\ timer.timeLeft <= 1
    /\ timer' = TimerOff
    /\ elapsed' = elapsed + 1
    /\ handleAnswerSubmit(rendered, <<>>, (elapsed + 1) * 1000 + late)
    /\ UNCHANGED <<mounted, mountPending, question, questionIndex, rendered, rng>>
    /\ UNCHANGED <<ctlVars, storeVars, procs, asked, handed, exited, returned>>
    /\ UNCHANGED reads

\* An expiry that counts towards MaxOdd.
handleTimeUp ==
    /\ \E late \in Lateness : onTimeUp(late)
    /\ odd' = IF rendered.isAnswered THEN odd ELSE odd + 1
    /\ odd' <= MaxOdd

\* An expiry in a session in which any number of questions may expire, the
\* callback being on time (the lateness only changes the timeTaken recorded).
handleTimeUpAnyNumber ==
    /\ onTimeUp(0)
    /\ UNCHANGED odd

\* A pending 1500 ms timeout fires and its nextQuestion takes the else-branch.
nextQuestion ==
    /\ UNCHANGED auxVars
    /\ timeouts # <<>>
    /\ Head(timeouts).quizSettings # Null
    /\ Head(timeouts).questionIndex < TOTAL_QUESTIONS
    /\ timeouts' = Tail(timeouts)
    /\ nextQuestionAdvance(Head(timeouts))
    /\ UNCHANGED <<mounted, mountPending, results, rendered, timer, odd>>
    /\ UNCHANGED <<ctlVars, storeVars, procs, answeredOk, handed, exited, returned>>
    /\ UNCHANGED reads

\* A pending 1500 ms timeout fires and its nextQuestion finds
\* questionIndex >= TOTAL_QUESTIONS: the summary goes to finishQuiz.
nextQuestionFinish ==
    /\ UNCHANGED auxVars
    /\ timeouts # <<>>
    /\ Head(timeouts).quizSettings # Null
    /\ Head(timeouts).questionIndex >= TOTAL_QUESTIONS
    /\ FreeSlots # {}
    /\ timeouts' = Tail(timeouts)
    /\ handed' = Append(handed, SummaryOf(Head(timeouts)))
    /\ finishQuiz(Head(timeouts).currentUser, SummaryOf(Head(timeouts)))
    /\ UNCHANGED <<mounted, mountPending, question, questionIndex, results, isAnswered,
                   rendered, timer, elapsed, rng, odd>>
    /\ UNCHANGED <<isLoading, users, progressData, currentUser, view, quizSettings>>
    /\ UNCHANGED <<storeVars, asked, answeredOk, exited, returned>>
    /\ UNCHANGED reads

\* view := v by an update made outside a DOM event of QuizScreen; QuizScreen is
\* rendered only for view = quiz with a user and settings (App.renderContent).
QuizScreenShown(v, cu, qs) == v = "quiz" /\ cu # Null /\ qs # Null

\* The Exit button of QuizScreen, confirmed: setView('dashboard').
Exit ==
    /\ UNCHANGED auxVars
    /\ mounted /\ ~mountPending
    /\ rendered.question # Null
    /\ view' = "dashboard"
    /\ exited' = IF handed = <<>> THEN "during" ELSE "after"
    /\ Unmount
    /\ UNCHANGED <<timeouts, odd>>
    /\ UNCHANGED <<isLoading, users, progressData, currentUser, quizSettings, quizResults>>
    /\ UNCHANGED <<storeVars, procs, handed, returned>>
    /\ UNCHANGED reads

\* QuizScreen follows the new view, user and settings: it leaves the tree when
\* App.renderContent no longer renders it.
QuizScreenFollows ==
    IF mounted /\ ~QuizScreenShown(view', currentUser', quizSettings')
    THEN Unmount
    ELSE UNCHANGED screenVars

\* ------------------------------------------------------ the remote collaborator

\* The store answers a pending `from('progress').select('*')`: the rows as they
\* are now, or an error.
selectProgress(i, ok) ==
    /\ Outcome(ok)
    /\ UNCHANGED <<authLog, acts>>
    /\ procs[i] # Idle
    /\ procs[i].pc = "selectProgress"
    /\ procs[i].data = Null
    /\ procs' = [procs EXCEPT ![i].data =
                    IF ok THEN [error |-> FALSE, rows |-> progress]
                    ELSE [error |-> TRUE]]
    /\ UNCHANGED <<quizVars, ctlVars, storeVars, histVars>>
    /\ reads' = Tracked

\* ------------------------------------------------------------- AppProvider

\* Seeded fault for C21: a refresh that adds the fetched rows to the index it
\* finds.
fetchAllProgressDataCarriesOver(resp) ==
    IF resp.error THEN UNCHANGED progressData
    ELSE progressData' = transformLoop(resp.rows, progressData)

\* fetchAllProgressData after its await, for the response resp.
fetchAllProgressData(resp) ==
    IF resp.error THEN UNCHANGED progressData
    ELSE progressData' = transformLoop(resp.rows, EmptyObject)

\* The row finishQuiz inserts.
AttemptRecord(cu, summary) ==
    [user_id |-> cu.id,
     operation |-> summary.settings.operation,
     stage |-> summary.settings.stage,
     score |-> summary.score,
     total_time |-> summary.totalTime]

\* Seeded fault for C6: finishQuiz that shows the results as soon as the insert
\* has succeeded, without waiting for the refresh.
finishQuizInsertEarlyView(i, ok) ==
    /\ Outcome(ok)
    /\ UNCHANGED <<authLog, acts>>
    /\ procs[i] # Idle
    /\ procs[i].op = "finishQuiz" /\ procs[i].pc = "insert"
    /\ IF ok
       THEN /\ Len(progress) < MaxRows
            /\ progress' = Append(progress,
                                  AttemptRecord(procs[i].currentUser, procs[i].summary))
            /\ procs' = [procs EXCEPT ![i].pc = "selectProgress"]
       ELSE /\ progress' = progress
            /\ procs' = [procs EXCEPT ![i] = Idle]
    /\ view' = "results"
    /\ UNCHANGED <<isLoading, users, progressData, currentUser, quizSettings, quizResults>>
    /\ UNCHANGED <<identities, profiles, notifs, timeouts, odd, histVars>>
    /\ QuizScreenFollows
    /\ reads' = Tracked

\* Seeded fault for C36: a finishQuiz that gives up when the insert fails.
finishQuizInsertStopsOnError(i, ok) ==
    /\ Outcome(ok)
    /\ UNCHANGED <<authLog, acts>>
    /\ procs[i] # Idle
    /\ procs[i].op = "finishQuiz" /\ procs[i].pc = "insert"
    /\ IF ok
       THEN /\ Len(progress) < MaxRows
            /\ progress' = Append(progress,
                                  AttemptRecord(procs[i].currentUser, procs[i].summary))
            /\ procs' = [procs EXCEPT ![i].pc = "selectProgress"]
       ELSE /\ progress' = progress
            /\ procs' = [procs EXCEPT ![i] = Idle]
    /\ view' = view
    /\ UNCHANGED <<isLoading, users, progressData, currentUser, quizSettings, quizResults>>
    /\ UNCHANGED <<identities, profiles, notifs, timeouts, odd, histVars>>
    /\ QuizScreenFollows
    /\ reads' = Tracked

\* finishQuiz resumes after the insert, which succeeded (ok) or failed.
finishQuizInsert(i, ok) ==
    /\ Outcome(ok)
    /\ UNCHANGED <<authLog, acts>>
    /\ procs[i] # Idle
    /\ procs[i].op = "finishQuiz" /\ procs[i].pc = "insert"
    /\ IF ok
       THEN /\ Len(progress) < MaxRows
            /\ progress' = Append(progress,
                                  AttemptRecord(procs[i].currentUser, procs[i].summary))
            /\ procs' = [procs EXCEPT ![i].pc = "selectProgress"]
            /\ view' = view
       ELSE /\ progress' = progress
            /\ procs' = [procs EXCEPT ![i] = Idle]
            /\ view' = "results"
    /\ UNCHANGED <<isLoading, users, progressData, currentUser, quizSettings, quizResults>>
    /\ UNCHANGED <<identities, profiles, notifs, timeouts, odd, histVars>>
    /\ QuizScreenFollows
    /\ reads' = Tracked

\* finishQuiz resumes after fetchAllProgressData and sets the view.
finishQuizRefresh(i) ==
    /\ UNCHANGED auxVars
    /\ procs[i] # Idle
    /\ procs[i].op = "finishQuiz" /\ procs[i].pc = "selectProgress"
    /\ procs[i].data # Null
    /\ fetchAllProgressData(procs[i].data)
    /\ view' = "results"
    /\ procs' = [procs EXCEPT ![i] = Idle]
    /\ UNCHANGED <<isLoading, users, currentUser, quizSettings, quizResults>>
    /\ UNCHANGED <<storeVars, timeouts, odd, histVars>>
    /\ QuizScreenFollows
    /\ reads' = Tracked

\* -------------------------------------------------------------------- App

\* The screen AppContent renders.
Screen ==
    IF isLoading THEN "Loader"
    ELSE IF currentUser = Null
    THEN IF view = "signUp" THEN "SignUpScreen" ELSE "LoginScreen"
    ELSE CASE view = "selectQuiz" -> "SelectQuizScreen"
           [] view = "quiz" ->
                IF quizSettings = Null THEN "SelectQuizScreen" ELSE "QuizScreen"
           [] view = "results" ->
                IF quizResults = Null THEN "StudentDashboard" ELSE "ResultsScreen"
           [] OTHER ->
                CASE currentUser.role = "admin" -> "AdminDashboard"
                  [] currentUser.role = "teacher" -> "TeacherDashboard"
                  [] currentUser.role = "student" -> "StudentDashboard"
                  [] currentUser.role = "parent" -> "ParentDashboard"
                  [] OTHER -> "LoginScreen"

\* user.childId: the property of that name, undefined (no id) when the object
\* has none.
childId(user) == IF "childId" \in DOMAIN user THEN user.childId ELSE NoId

\* What ParentDashboard renders.
ParentDashboard ==
    IF currentUser = Null \/ childId(currentUser) = NoId THEN "NoChildLinked"
    ELSE IF ~\E user \in users : user.id = childId(currentUser) THEN "ChildNotFound"
    ELSE "ProgressReport"

\* Header is rendered for an authenticated user once loading is over.
HeaderShown == ~isLoading /\ currentUser # Null

\* The views a control of the displayed screen passes to setView.
SetViewTargets ==
    (IF HeaderShown THEN {"dashboard"} ELSE {})
    \cup (CASE Screen = "LoginScreen" -> {"signUp"}
            [] Screen = "SignUpScreen" -> {"login"}
            [] Screen = "StudentDashboard" -> {"selectQuiz"}
            [] Screen = "SelectQuizScreen" -> {"dashboard"}
            [] Screen = "ResultsScreen" -> {"dashboard", "selectQuiz"}
            [] OTHER -> {})

\* setView(v) from a control other than the Exit button of QuizScreen.
setView(v) ==
    /\ v \in SetViewTargets
    /\ view # v
    /\ view' = v
    /\ UNCHANGED <<isLoading, users, progressData, currentUser, quizSettings, quizResults>>
    /\ exited' = IF mounted /\ ~QuizScreenShown(v, currentUser, quizSettings)
                  THEN IF handed = <<>> THEN "during" ELSE "after"
                  ELSE exited
    /\ UNCHANGED <<timeouts, odd, storeVars, procs, handed, returned, auxVars>>
    /\ QuizScreenFollows
    /\ UNCHANGED reads

\* startQuiz(settings) from SelectQuizScreen: QuizScreen is mounted by the
\* render that follows.
startQuiz(settings) ==
    /\ Screen = "SelectQuizScreen"
    /\ acts < MaxActs
    /\ acts' = acts + 1
    /\ quizSettings' = settings
    /\ view' = "quiz"
    /\ mounted' = TRUE
    /\ mountPending' = TRUE
    /\ question' = Null
    /\ questionIndex' = 0
    /\ results' = <<>>
    /\ isAnswered' = FALSE
    /\ rendered' = Closure(settings, currentUser, Null, 0, <<>>, FALSE)
    /\ timer' = TimerOff
    /\ elapsed' = 0
    /\ odd' = 0
    /\ asked' = <<>>
    /\ answeredOk' = {}
    /\ handed' = <<>>
    /\ exited' = "no"
    /\ UNCHANGED <<isLoading, users, progressData, currentUser, quizResults>>
    /\ rng' \in Seeds
    /\ UNCHANGED <<timeouts, storeVars, procs, returned, authLog, faults>>
    /\ UNCHANGED reads

\* ------------------------------------------------- the auth collaborator

EmailOf(id) ==
    CASE id = "a1" -> "ada@x.com"
      [] id = "s1" -> "sam@x.com"
      [] id = "n1" -> "nia@x.com"
      [] OTHER -> NoId

\* What an auth notification carries: a session, or none.
Session(id) == [user |-> id, email |-> EmailOf(id)]
NoSession == [user |-> NoId, email |-> NoId]

\* Seeded fault for C7: a login that writes currentUser itself once the
\* sign-in is accepted.
loginSetsUser(u, ok) ==
    /\ Screen = "LoginScreen"
    /\ acts < MaxActs
    /\ acts' = acts + 1
    /\ Outcome(ok)
    /\ notifs' = IF ok THEN Append(notifs, Session(u)) ELSE notifs
    /\ returned' = Ret("login",
                       IF ok THEN Result(TRUE, <<"Login successful!">>)
                       ELSE Result(FALSE, <<ErrorMessage("signInWithPassword")>>))
    /\ currentUser' = IF ok
                      THEN [id |-> u, name |-> u, role |-> "student", child_id |-> NoId,
                            email |-> EmailOf(u)]
                      ELSE currentUser
    /\ UNCHANGED <<quizVars, isLoading, users, progressData, view, quizSettings,
                   quizResults, identities, profiles, progress, procs, handed, exited,
                   authLog>>
    /\ UNCHANGED reads

\* Seeded fault for C13: a login that reports a rejection in its own words.
loginGenericMessage(u, ok) ==
    /\ Screen = "LoginScreen"
    /\ acts < MaxActs
    /\ acts' = acts + 1
    /\ Outcome(ok)
    /\ notifs' = IF ok THEN Append(notifs, Session(u)) ELSE notifs
    /\ returned' = Ret("login",
                       IF ok THEN Result(TRUE, <<"Login successful!">>)
                       ELSE Result(FALSE, <<"Login failed.">>))
    /\ UNCHANGED <<quizVars, ctlVars, identities, profiles, progress, procs, handed, exited,
                   authLog>>
    /\ UNCHANGED reads

\* login(email, password) from LoginScreen, from the call to its return (the
\* form is disabled in between): signInWithPassword is accepted (ok) or
\* rejected; an accepted sign-in is announced by a notification, whose handler
\* may still be waiting for the profile when the form is enabled again.
login(u, ok) ==
    /\ Screen = "LoginScreen"
    /\ acts < MaxActs
    /\ acts' = acts + 1
    /\ Outcome(ok)
    /\ notifs' = IF ok THEN Append(notifs, Session(u)) ELSE notifs
    /\ returned' = Ret("login",
                       IF ok THEN Result(TRUE, <<"Login successful!">>)
                       ELSE Result(FALSE, <<ErrorMessage("signInWithPassword")>>))
    /\ UNCHANGED <<quizVars, ctlVars, identities, profiles, progress, procs, handed, exited,
                   authLog>>
    /\ UNCHANGED reads

\* logout() from Header: signOut is announced by a notification without session.
logout ==
    /\ HeaderShown
    /\ acts < MaxActs
    /\ acts' = acts + 1
    /\ notifs' = Append(notifs, NoSession)
    /\ UNCHANGED <<quizVars, ctlVars, identities, profiles, progress, procs, histVars,
                   authLog, faults>>
    /\ UNCHANGED reads

\* The collaborator announces a session on its own: the current one again
\* (token refreshed, window focused), or one that another window of the
\* browser has started. The callback is called for every auth event, whatever
\* _event is.
sessionAnnounced(u) ==
    /\ acts < MaxActs
    /\ acts' = acts + 1
    /\ notifs' = Append(notifs, Session(u))
    /\ UNCHANGED <<quizVars, ctlVars, identities, profiles, progress, procs, histVars,
                   authLog, faults>>
    /\ UNCHANGED reads

\* ------------------------------------------------- the auth-event handler

\* The callback given to onAuthStateChange is called with a session: it runs
\* up to its first await, the load of the session user's profile.
onAuthStateChangeSession ==
    /\ notifs # <<>>
    /\ Head(notifs).user # NoId
    /\ FreeSlots # {}
    /\ notifs' = Tail(notifs)
    /\ procs' = Spawn([op |-> "auth", pc |-> "selectProfile", session |-> Head(notifs),
                       data |-> Null, n |-> authLog.n + 1])
    /\ authLog' = [n |-> authLog.n + 1, id |-> Head(notifs).user, loaded |-> FALSE,
                   from |-> "none"]
    /\ UNCHANGED <<quizVars, ctlVars, identities, profiles, progress, histVars,
                   acts, faults>>
    /\ reads' = Tracked

\* Seeded fault for C10: a signed-out branch that forgets setUsers([]).
onSignedOutKeepsUsers ==
    /\ currentUser' = Null
    /\ view' = "login"
    /\ users' = users
    /\ progressData' = EmptyObject

\* The else-branch of the callback: the user is signed out.
onSignedOut ==
    /\ currentUser' = Null
    /\ view' = "login"
    /\ users' = {}
    /\ progressData' = EmptyObject

\* The callback is called without session: the else-branch, then
\* setIsLoading(false).
onAuthStateChangeNoSession ==
    /\ notifs # <<>>
    /\ Head(notifs).user = NoId
    /\ notifs' = Tail(notifs)
    /\ onSignedOut
    /\ isLoading' = FALSE
    /\ authLog' = [n |-> authLog.n + 1, id |-> NoId, loaded |-> FALSE, from |-> "none"]
    /\ UNCHANGED <<quizSettings, quizResults, timeouts, odd>>
    /\ UNCHANGED <<identities, profiles, progress, procs, histVars, acts, faults>>
    /\ QuizScreenFollows
    /\ reads' = [reads EXCEPT !.users = 0, !.progress = 0]

\* userWithEmail: the profile row with the session's email added.
userWithEmail(profile, session) ==
    [id |-> profile.id, name |-> profile.name, role |-> profile.role,
     child_id |-> profile.child_id, email |-> session.email]

\* Seeded fault for C11: a handler that moves to the dashboard from the login
\* view only.
authProfileKeepsView(i, ok) ==
    /\ procs[i] # Idle
    /\ procs[i].op = "auth" /\ procs[i].pc = "selectProfile"
    /\ LET rows == {p \in profiles : p.id = procs[i].session.user}
           profile == IF ok /\ rows # {} THEN CHOOSE p \in rows : TRUE ELSE Null
       IN  IF profile # Null
           THEN /\ currentUser' = userWithEmail(profile, procs[i].session)
                /\ view' = IF view = "login" THEN "dashboard" ELSE view
                /\ procs' = [procs EXCEPT ![i].pc = "selectUsers"]
                /\ authLog' = IF procs[i].n = authLog.n
                              THEN [authLog EXCEPT !.loaded = TRUE, !.from = view]
                              ELSE authLog
                /\ UNCHANGED isLoading
           ELSE /\ isLoading' = FALSE
                /\ procs' = [procs EXCEPT ![i] = Idle]
                /\ UNCHANGED <<currentUser, view, authLog>>
    /\ UNCHANGED <<users, progressData, quizSettings, quizResults, timeouts, odd>>
    /\ Outcome(ok)
    /\ UNCHANGED <<storeVars, histVars, acts>>
    /\ QuizScreenFollows
    /\ reads' = Tracked

\* The handler resumes after the profile load: `.single()` gave the row of the
\* session's user, or nothing (no such row, or the request failed: ~ok).
authProfile(i, ok) ==
    /\ procs[i] # Idle
    /\ procs[i].op = "auth" /\ procs[i].pc = "selectProfile"
    /\ LET rows == {p \in profiles : p.id = procs[i].session.user}
           profile == IF ok /\ rows # {} THEN CHOOSE p \in rows : TRUE ELSE Null
       IN  IF profile # Null
           THEN /\ currentUser' = userWithEmail(profile, procs[i].session)
                /\ view' = "dashboard"
                /\ procs' = [procs EXCEPT ![i].pc = "selectUsers"]
                /\ authLog' = IF procs[i].n = authLog.n
                              THEN [authLog EXCEPT !.loaded = TRUE, !.from = view]
                              ELSE authLog
                /\ UNCHANGED isLoading
           ELSE /\ isLoading' = FALSE
                /\ procs' = [procs EXCEPT ![i] = Idle]
                /\ UNCHANGED <<currentUser, view, authLog>>
    /\ UNCHANGED <<users, progressData, quizSettings, quizResults, timeouts, odd>>
    /\ Outcome(ok)
    /\ UNCHANGED <<storeVars, histVars, acts>>
    /\ QuizScreenFollows
    /\ reads' = Tracked

\* The store answers a pending `from('profiles').select('*')`.
selectUsers(i, ok) ==
    /\ procs[i] # Idle
    /\ procs[i].pc = "selectUsers"
    /\ procs[i].data = Null
    /\ procs' = [procs EXCEPT ![i].data =
                    IF ok THEN [error |-> FALSE, rows |-> profiles]
                    ELSE [error |-> TRUE]]
    /\ UNCHANGED <<quizVars, ctlVars, storeVars, histVars, authLog, acts>>
    /\ Outcome(ok)
    /\ reads' = Tracked

\* Seeded fault for C18: a fetchAllUsers that empties the cache on a failed read.
fetchAllUsersClearsOnError(resp) ==
    IF resp.error THEN users' = {}
    ELSE users' = resp.rows

\* fetchAllUsers after its await, for the response resp.
fetchAllUsers(resp) ==
    IF resp.error THEN UNCHANGED users
    ELSE users' = resp.rows

\* The handler resumes after fetchAllUsers and calls fetchAllProgressData.
authUsers(i) ==
    /\ procs[i] # Idle
    /\ procs[i].op = "auth" /\ procs[i].pc = "selectUsers"
    /\ procs[i].data # Null
    /\ fetchAllUsers(procs[i].data)
    /\ procs' = [procs EXCEPT ![i].pc = "selectProgress", ![i].data = Null]
    /\ UNCHANGED <<isLoading, progressData, currentUser, view, quizSettings, quizResults>>
    /\ UNCHANGED <<quizVars, storeVars, histVars, auxVars>>
    /\ reads' = Tracked

\* The handler resumes after fetchAllProgressData: setIsLoading(false).
authProgress(i) ==
    /\ procs[i] # Idle
    /\ procs[i].op = "auth" /\ procs[i].pc = "selectProgress"
    /\ procs[i].data # Null
    /\ fetchAllProgressData(procs[i].data)
    /\ isLoading' = FALSE
    /\ procs' = [procs EXCEPT ![i] = Idle]
    /\ UNCHANGED <<users, currentUser, view, quizSettings, quizResults>>
    /\ UNCHANGED <<quizVars, storeVars, histVars, auxVars>>
    /\ reads' = Tracked

\* ------------------------------------------------------- signUp and addUser

\* What the sign-up form (SignUpScreen) or the user form of the admin
\* (UserManagementForm) may hold; the auth collaborator gives the new user the
\* id `id`.
SignUpData ==
    {[id |-> "n1", name |-> "Nia", role |-> "parent", childId |-> "s1"],
     [id |-> "n1", name |-> "Nia", role |-> "student", childId |-> NoId]}

\* The admin's form does not require a child for a parent.
AddUserData ==
    SignUpData \cup {[id |-> "n1", name |-> "Nia", role |-> "parent", childId |-> NoId]}

\* signUp(data), called by SignUpScreen or by addUser (caller), up to its first
\* await, auth.signUp.
signUpCall(data, caller) ==
    /\ acts < MaxActs
    /\ acts' = acts + 1
    /\ FreeSlots # {}
    /\ procs' = Spawn([op |-> "signUp", pc |-> "signUp", form |-> data,
                       caller |-> caller, data |-> Null])
    /\ UNCHANGED <<quizVars, ctlVars, storeVars, histVars, authLog, faults>>
    /\ reads' = Tracked

signUp(data) ==
    /\ Screen = "SignUpScreen"
    /\ signUpCall(data, "signUp")

\* addUser(data) from the admin's form: `await signUp(data)`.
addUser(data) ==
    /\ Screen = "AdminDashboard"
    /\ signUpCall(data, "addUser")

\* Seeded fault for C20: an addUser that skips the refresh.
signUpSucceededNoRefresh(i) == [procs EXCEPT ![i] = Idle]

\* Where signUp goes once it reports success: back to SignUpScreen, or on to
\* addUser's fetchAllUsers.
signUpSucceeded(i) ==
    IF procs[i].caller = "addUser"
    THEN [procs EXCEPT ![i].pc = "selectUsers"]
    ELSE [procs EXCEPT ![i] = Idle]

\* signUp returns result: to SignUpScreen, or to addUser, which returns a
\* failure unchanged and goes on after a success.
signUpReturns(i, result) ==
    IF result.success /\ procs[i].caller = "addUser" THEN returned
    ELSE Ret(procs[i].caller, result)

SignUpSuccess ==
    Result(TRUE, <<"Sign up successful! Please check your email for a confirmation link.">>)

\* The trigger handle_new_user: the profile row of a new auth user.
handle_new_user(form) ==
    [id |-> form.id, name |-> form.name, role |-> form.role, child_id |-> NoId]

\* Seeded fault for C12: a signUp that links every new parent, with or without
\* a child id.
signUpAuthLinksEveryParent(i, ok, session) ==
    /\ procs[i] # Idle
    /\ procs[i].op = "signUp" /\ procs[i].pc = "signUp"
    /\ ok => procs[i].form.id \notin identities
    /\ IF ok
       THEN /\ identities' = identities \cup {procs[i].form.id}
            /\ profiles' = profiles \cup {handle_new_user(procs[i].form)}
            /\ notifs' = IF session THEN Append(notifs, Session(procs[i].form.id))
                         ELSE notifs
            /\ procs' = IF procs[i].form.role = "parent"
                        THEN [procs EXCEPT ![i].pc = "link"]
                        ELSE signUpSucceeded(i)
            /\ returned' = IF procs[i].form.role = "parent"
                             THEN returned
                             ELSE signUpReturns(i, SignUpSuccess)
       ELSE /\ procs' = [procs EXCEPT ![i] = Idle]
            /\ returned' = signUpReturns(i, Result(FALSE, <<ErrorMessage("signUp")>>))
            /\ UNCHANGED <<identities, profiles, notifs>>
    /\ UNCHANGED <<quizVars, ctlVars, progress, handed, exited, authLog, acts>>
    /\ Outcome(ok)
    /\ reads' = Tracked

\* signUp resumes after auth.signUp, which created the user (ok) or was
\* rejected; a created user is signed in at once (session) when the project
\* asks for no email confirmation.
signUpAuth(i, ok, session) ==
    /\ procs[i] # Idle
    /\ procs[i].op = "signUp" /\ procs[i].pc = "signUp"
    /\ ok => procs[i].form.id \notin identities
    /\ IF ok
       THEN /\ identities' = identities \cup {procs[i].form.id}
            /\ profiles' = profiles \cup {handle_new_user(procs[i].form)}
            /\ notifs' = IF session THEN Append(notifs, Session(procs[i].form.id))
                         ELSE notifs
            /\ procs' = IF procs[i].form.role = "parent" /\ procs[i].form.childId # NoId
                        THEN [procs EXCEPT ![i].pc = "link"]
                        ELSE signUpSucceeded(i)
            /\ returned' = IF procs[i].form.role = "parent"
                                /\ procs[i].form.childId # NoId
                             THEN returned
                             ELSE signUpReturns(i, SignUpSuccess)
       ELSE /\ procs' = [procs EXCEPT ![i] = Idle]
            /\ returned' = signUpReturns(i, Result(FALSE, <<ErrorMessage("signUp")>>))
            /\ UNCHANGED <<identities, profiles, notifs>>
    /\ UNCHANGED <<quizVars, ctlVars, progress, handed, exited, authLog, acts>>
    /\ Outcome(ok)
    /\ reads' = Tracked

\* signUp resumes after the update that links the child.
signUpLink(i, ok) ==
    /\ procs[i] # Idle
    /\ procs[i].op = "signUp" /\ procs[i].pc = "link"
    /\ IF ok
       THEN /\ profiles' = {IF p.id = procs[i].form.id
                            THEN [p EXCEPT !.child_id = procs[i].form.childId]
                            ELSE p : p \in profiles}
            /\ procs' = signUpSucceeded(i)
            /\ returned' = signUpReturns(i, SignUpSuccess)
       ELSE /\ procs' = [procs EXCEPT ![i] = Idle]
            /\ returned' = signUpReturns(i,
                  Result(FALSE, <<"User created, but failed to link child: ",
                                  ErrorMessage("link")>>))
            /\ UNCHANGED profiles
    /\ UNCHANGED <<quizVars, ctlVars, identities, progress, notifs, handed, exited, authLog, acts>>
    /\ Outcome(ok)
    /\ reads' = Tracked

\* addUser resumes after fetchAllUsers.
addUserRefresh(i) ==
    /\ procs[i] # Idle
    /\ procs[i].op = "signUp" /\ procs[i].pc = "selectUsers"
    /\ procs[i].data # Null
    /\ fetchAllUsers(procs[i].data)
    /\ procs' = [procs EXCEPT ![i] = Idle]
    /\ returned' = Ret("addUser",
          Result(TRUE, <<"User added successfully. Admin will be logged out.">>))
    /\ UNCHANGED <<isLoading, progressData, currentUser, view, quizSettings, quizResults>>
    /\ UNCHANGED <<quizVars, storeVars, handed, exited, auxVars>>
    /\ reads' = Tracked

\* ------------------------------------------------------------- updateUser

\* The roles the admin's form may give the edited user.
EditRoles == {"teacher"}

\* What the admin's form passes to updateUser: a row of the users cache with
\* the edited fields; childId is null unless the role is parent.
UpdatedUsers ==
    {[id |-> u.id, name |-> u.name, role |-> r, childId |-> NoId] :
        u \in users, r \in EditRoles}

\* updateUser(updatedUser) up to its await, the update of the profile.
updateUser(updatedUser) ==
    /\ Screen = "AdminDashboard"
    /\ acts < MaxActs
    /\ acts' = acts + 1
    /\ FreeSlots # {}
    /\ procs' = Spawn([op |-> "updateUser", pc |-> "update", updatedUser |-> updatedUser,
                       data |-> Null])
    /\ UNCHANGED <<quizVars, ctlVars, storeVars, histVars, authLog, faults>>
    /\ reads' = Tracked

\* Seeded fault for C19: an updateUser that refreshes whatever the update did.
updateUserUpdateAlwaysRefreshes(i, ok) ==
    /\ procs[i] # Idle
    /\ procs[i].op = "updateUser" /\ procs[i].pc = "update"
    /\ profiles' = IF ok
                   THEN {IF p.id = procs[i].updatedUser.id
                         THEN [p EXCEPT !.name = procs[i].updatedUser.name,
                                        !.role = procs[i].updatedUser.role,
                                        !.child_id = procs[i].updatedUser.childId]
                         ELSE p : p \in profiles}
                   ELSE profiles
    /\ procs' = [procs EXCEPT ![i].pc = "selectUsers"]
    /\ UNCHANGED returned
    /\ UNCHANGED <<quizVars, ctlVars, identities, progress, notifs, handed, exited, authLog, acts>>
    /\ Outcome(ok)
    /\ reads' = Tracked

\* updateUser resumes after the update.
updateUserUpdate(i, ok) ==
    /\ procs[i] # Idle
    /\ procs[i].op = "updateUser" /\ procs[i].pc = "update"
    /\ IF ok
       THEN /\ profiles' = {IF p.id = procs[i].updatedUser.id
                            THEN [p EXCEPT !.name = procs[i].updatedUser.name,
                                           !.role = procs[i].updatedUser.role,
                                           !.child_id = procs[i].updatedUser.childId]
                            ELSE p : p \in profiles}
            /\ procs' = [procs EXCEPT ![i].pc = "selectUsers"]
            /\ UNCHANGED returned
       ELSE /\ procs' = [procs EXCEPT ![i] = Idle]
            /\ returned' = Ret("updateUser", Result(FALSE, <<ErrorMessage("update")>>))
            /\ UNCHANGED profiles
    /\ UNCHANGED <<quizVars, ctlVars, identities, progress, notifs, handed, exited, authLog, acts>>
    /\ Outcome(ok)
    /\ reads' = Tracked

\* updateUser resumes after fetchAllUsers.
updateUserRefresh(i) ==
    /\ procs[i] # Idle
    /\ procs[i].op = "updateUser" /\ procs[i].pc = "selectUsers"
    /\ procs[i].data # Null
    /\ fetchAllUsers(procs[i].data)
    /\ procs' = [procs EXCEPT ![i] = Idle]
    /\ returned' = Ret("updateUser", Result(TRUE, <<"User updated successfully.">>))
    /\ UNCHANGED <<isLoading, progressData, currentUser, view, quizSettings, quizResults>>
    /\ UNCHANGED <<quizVars, storeVars, handed, exited, auxVars>>
    /\ reads' = Tracked

\* ------------------------------------------------------------- deleteUser

\* deleteUser(userId) up to its first await; `failed` keeps the phases whose
\* error was logged.
deleteUser(userId) ==
    /\ acts < MaxActs
    /\ acts' = acts + 1
    /\ FreeSlots # {}
    /\ procs' = Spawn([op |-> "deleteUser", pc |-> "deleteProfile", userId |-> userId,
                       failed |-> {}, data |-> Null])
    /\ UNCHANGED <<quizVars, ctlVars, storeVars, histVars, authLog, faults>>
    /\ reads' = Tracked

\* Seeded fault for C38: a deleteUser that returns when the deletion of the
\* profile fails.
deleteUserProfileStopsOnError(i, ok) ==
    /\ procs[i] # Idle
    /\ procs[i].op = "deleteUser" /\ procs[i].pc = "deleteProfile"
    /\ profiles' = IF ok THEN {p \in profiles : p.id # procs[i].userId} ELSE profiles
    /\ procs' = IF ok THEN [procs EXCEPT ![i].pc = "deleteProgress"]
                ELSE [procs EXCEPT ![i] = Idle]
    /\ UNCHANGED <<quizVars, ctlVars, identities, progress, notifs, histVars, authLog, acts>>
    /\ Outcome(ok)
    /\ reads' = Tracked

\* deleteUser resumes after the deletion of the profile.
deleteUserProfile(i, ok) ==
    /\ procs[i] # Idle
    /\ procs[i].op = "deleteUser" /\ procs[i].pc = "deleteProfile"
    /\ profiles' = IF ok THEN {p \in profiles : p.id # procs[i].userId} ELSE profiles
    /\ procs' = [procs EXCEPT ![i].pc = "deleteProgress",
                              ![i].failed = IF ok THEN @ ELSE @ \cup {"profile"}]
    /\ UNCHANGED <<quizVars, ctlVars, identities, progress, notifs, histVars, authLog, acts>>
    /\ Outcome(ok)
    /\ reads' = Tracked

\* deleteUser resumes after the deletion of the progress rows.
deleteUserProgress(i, ok) ==
    /\ procs[i] # Idle
    /\ procs[i].op = "deleteUser" /\ procs[i].pc = "deleteProgress"
    /\ progress' = IF ok
                   THEN SelectSeq(progress, LAMBDA r : r.user_id # procs[i].userId)
                   ELSE progress
    /\ procs' = [procs EXCEPT ![i].pc = "selectUsers",
                              ![i].failed = IF ok THEN @ ELSE @ \cup {"progress"}]
    /\ UNCHANGED <<quizVars, ctlVars, identities, profiles, notifs, histVars, authLog, acts>>
    /\ Outcome(ok)
    /\ reads' = Tracked

\* deleteUser resumes after fetchAllUsers.
deleteUserUsers(i) ==
    /\ procs[i] # Idle
    /\ procs[i].op = "deleteUser" /\ procs[i].pc = "selectUsers"
    /\ procs[i].data # Null
    /\ fetchAllUsers(procs[i].data)
    /\ procs' = [procs EXCEPT ![i].pc = "selectProgress", ![i].data = Null,
                              ![i].failed = IF procs[i].data.error
                                            THEN @ \cup {"users"} ELSE @]
    /\ UNCHANGED <<isLoading, progressData, currentUser, view, quizSettings, quizResults>>
    /\ UNCHANGED <<quizVars, storeVars, histVars, auxVars>>
    /\ reads' = Tracked

\* deleteUser resumes after fetchAllProgressData.
deleteUserRefresh(i) ==
    /\ procs[i] # Idle
    /\ procs[i].op = "deleteUser" /\ procs[i].pc = "selectProgress"
    /\ procs[i].data # Null
    /\ fetchAllProgressData(procs[i].data)
    /\ procs' = [procs EXCEPT ![i] = Idle]
    /\ returned' = Ret("deleteUser", Undefined)
    /\ UNCHANGED <<isLoading, users, currentUser, view, quizSettings, quizResults>>
    /\ UNCHANGED <<quizVars, storeVars, handed, exited, auxVars>>
    /\ reads' = Tracked

\* ------------------------------------------------------------ initial data

Student1 == [id |-> "s1", name |-> "Sam", role |-> "student", child_id |-> NoId]

\* Settings a session is started with: the first operation and stage, and the
\* quickest timer option.
SessionSettings ==
    {[operation |-> "addition", stage |-> 1, timer |-> t] : t \in {x \in TIMER_OPTIONS : x < 4}}

\* A student is signed in and has just pressed Start Quiz: QuizScreen is
\* mounted by the first render and its mount effect is about to run.
QuizInit ==
    /\ quizSettings \in SessionSettings
    /\ currentUser = [id |-> "s1", name |-> "Sam", role |-> "student",
                      child_id |-> NoId, email |-> EmailOf("s1")]
    /\ view = "quiz"
    /\ isLoading = FALSE
    /\ users = {Student1}
    /\ progressData = EmptyObject
    /\ quizResults = Null
    /\ identities = {"s1"}
    /\ profiles = {Student1}
    /\ progress = <<>>
    /\ authLog = [n |-> 1, id |-> "s1", loaded |-> TRUE, from |-> "login"]
    /\ acts = 0
    /\ faults = 0
    /\ notifs = <<>>
    /\ procs = [i \in 1..MaxInflight |-> Idle]
    /\ mounted = TRUE
    /\ mountPending = TRUE
    /\ question = Null
    /\ questionIndex = 0
    /\ results = <<>>
    /\ isAnswered = FALSE
    /\ rendered = Closure(quizSettings, currentUser, Null, 0, <<>>, FALSE)
    /\ timer = TimerOff
    /\ timeouts = <<>>
    /\ rng \in Seeds
    /\ odd = 0
    /\ elapsed = 0
    /\ asked = <<>>
    /\ answeredOk = {}
    /\ handed = <<>>
    /\ exited = "no"
    /\ returned = [k |-> 0, op |-> "none", value |-> Undefined]
    /\ reads = NoReads

\* What the answer field may hold when the form is submitted.
Typed ==
    IF mounted /\ rendered.question # Null
    THEN {RightInput(rendered.question)} \cup WrongInputs(rendered.question)
    ELSE {}

handleSubmitForm == \E a \in Typed : handleSubmitFormWith(a)

\* The form is submitted with the right answer.
handleSubmitFormRight ==
    \E a \in {t \in Typed : t = RightInput(rendered.question)} : handleSubmitFormWith(a)

QuizNext ==
    \/ MountEffect
    \/ Render
    \/ handleSubmitForm
    \/ TimerTick
    \/ handleTimeUp
    \/ nextQuestion
    \/ nextQuestionFinish
    \/ Exit
    \/ \E i \in 1..MaxInflight, ok \in BOOLEAN : selectProgress(i, ok)
    \/ \E i \in 1..MaxInflight, ok \in BOOLEAN : finishQuizInsert(i, ok)
    \/ \E i \in 1..MaxInflight : finishQuizRefresh(i)

QuizSpec == QuizInit /\ [][QuizNext]_vars

\* The form is submitted with a wrong answer or with none.
handleSubmitFormOdd ==
    \E a \in {t \in Typed : t # RightInput(rendered.question)} : handleSubmitFormWith(a)

\* A quiz session under fair scheduling: an interval that is due calls back, a
\* pending timeout fires, a scheduled render and a pending mount effect take
\* place. The user lets the countdown expire, submits up to MaxOdd answers, or
\* leaves; nothing obliges the user or the store to act.
LiveNext ==
    \/ MountEffect
    \/ Render
    \/ handleSubmitFormOdd
    \/ TimerTick
    \/ handleTimeUpAnyNumber
    \/ nextQuestion
    \/ nextQuestionFinish
    \/ Exit
    \/ \E i \in 1..MaxInflight, ok \in BOOLEAN : selectProgress(i, ok)
    \/ \E i \in 1..MaxInflight, ok \in BOOLEAN : finishQuizInsert(i, ok)
    \/ \E i \in 1..MaxInflight : finishQuizRefresh(i)

LiveFairness ==
    /\ WF_vars(MountEffect)
    /\ WF_vars(Render)
    /\ WF_vars(TimerTick)
    /\ WF_vars(handleTimeUpAnyNumber)
    /\ WF_vars(nextQuestion)
    /\ WF_vars(nextQuestionFinish)

LiveSpec == QuizInit /\ [][LiveNext]_vars /\ LiveFairness

\* ------------------------------------------------------ the whole client

Admin1 == [id |-> "a1", name |-> "Ada", role |-> "admin", child_id |-> NoId]

\* AppProvider has mounted and subscribed to the auth events; the first
\* notification, not yet delivered, carries the stored session if there is one.
Init ==
    /\ isLoading = TRUE
    /\ users = {}
    /\ progressData = EmptyObject
    /\ currentUser = Null
    /\ view = "login"
    /\ quizSettings = Null
    /\ quizResults = Null
    /\ identities = {"a1", "s1"}
    /\ profiles = {Admin1, Student1}
    /\ progress = <<>>
    /\ notifs \in {<<NoSession>>, <<Session("s1")>>, <<Session("a1")>>}
    /\ procs = [i \in 1..MaxInflight |-> Idle]
    /\ mounted = FALSE
    /\ mountPending = FALSE
    /\ question = Null
    /\ questionIndex = 0
    /\ results = <<>>
    /\ isAnswered = FALSE
    /\ rendered = NoRender
    /\ timer = TimerOff
    /\ timeouts = <<>>
    /\ rng \in Seeds
    /\ odd = 0
    /\ elapsed = 0
    /\ asked = <<>>
    /\ answeredOk = {}
    /\ handed = <<>>
    /\ exited = "no"
    /\ returned = [k |-> 0, op |-> "none", value |-> Undefined]
    /\ authLog = [n |-> 0, id |-> NoId, loaded |-> FALSE, from |-> "none"]
    /\ acts = 0
    /\ faults = 0
    /\ reads = NoReads

Navigate == \E v \in {"login", "signUp", "dashboard", "selectQuiz"} : setView(v)

StartQuiz == \E settings \in SessionSettings : startQuiz(settings)

Login == \E u \in identities, ok \in BOOLEAN : login(u, ok)

SessionAnnounced == \E u \in identities : sessionAnnounced(u)

SignUp == \E data \in SignUpData : signUp(data)

AddUser == \E data \in AddUserData : addUser(data)

UpdateUser == \E updatedUser \in UpdatedUsers : updateUser(updatedUser)

\* AdminDashboard.handleDelete, confirmed: the button is rendered for every
\* listed user but the admin.
DeleteUser ==
    /\ Screen = "AdminDashboard"
    /\ \E userId \in {u.id : u \in users} \ {currentUser.id} : deleteUser(userId)

Next ==
    \/ MountEffect
    \/ Render
    \/ handleSubmitFormRight
    \/ nextQuestion
    \/ nextQuestionFinish
    \/ Exit
    \/ Navigate
    \/ StartQuiz
    \/ Login
    \/ logout
    \/ SessionAnnounced
    \/ SignUp
    \/ AddUser
    \/ UpdateUser
    \/ DeleteUser
    \/ onAuthStateChangeSession
    \/ onAuthStateChangeNoSession
    \/ \E i \in 1..MaxInflight, ok \in BOOLEAN :
          \/ authProfile(i, ok)
          \/ selectUsers(i, ok)
          \/ selectProgress(i, ok)
          \/ finishQuizInsert(i, ok)
          \/ signUpLink(i, ok)
          \/ updateUserUpdate(i, ok)
          \/ deleteUserProfile(i, ok)
          \/ deleteUserProgress(i, ok)
          \/ \E session \in BOOLEAN : signUpAuth(i, ok, session)
    \/ \E i \in 1..MaxInflight :
          \/ authUsers(i)
          \/ authProgress(i)
          \/ finishQuizRefresh(i)
          \/ addUserRefresh(i)
          \/ updateUserRefresh(i)
          \/ deleteUserUsers(i)
          \/ deleteUserRefresh(i)

Spec == Init /\ [][Next]_vars

\* --------------------------------------- the controller called directly

\* deleteUser is part of the context value: a consumer may call it with the id
\* of any user, the current one's included (AdminDashboard does not).
DeleteAnyUser ==
    /\ HeaderShown
    /\ \E userId \in identities : deleteUser(userId)

\* The views of the type View.
Views == {"login", "signUp", "dashboard", "selectQuiz", "quiz", "results"}

\* setView(v), which the context hands to every consumer, called with any
\* view: QuizScreen is mounted when the new view renders it, and leaves the
\* tree when the new view no longer does.
setViewDirect(v) ==
    /\ ~isLoading
    /\ acts < MaxActs
    /\ acts' = acts + 1
    /\ view # v
    /\ view' = v
    /\ UNCHANGED <<isLoading, users, progressData, currentUser, quizSettings, quizResults>>
    /\ IF ~mounted /\ QuizScreenShown(v, currentUser, quizSettings)
       THEN /\ mounted' = TRUE
            /\ mountPending' = TRUE
            /\ question' = Null
            /\ questionIndex' = 0
            /\ results' = <<>>
            /\ isAnswered' = FALSE
            /\ rendered' = Closure(quizSettings, currentUser, Null, 0, <<>>, FALSE)
            /\ timer' = TimerOff
            /\ elapsed' = 0
            /\ rng' \in Seeds
            /\ asked' = <<>>
            /\ answeredOk' = {}
            /\ odd' = 0
            /\ handed' = <<>>
            /\ exited' = "no"
       ELSE /\ QuizScreenFollows
            /\ exited' = IF mounted /\ ~QuizScreenShown(v, currentUser, quizSettings)
                          THEN IF handed = <<>> THEN "during" ELSE "after"
                          ELSE exited
            /\ UNCHANGED <<odd, handed>>
    /\ UNCHANGED <<timeouts, storeVars, procs, returned, authLog, faults>>
    /\ UNCHANGED reads

SetAnyView == \E v \in Views : setViewDirect(v)

DirectNext ==
    \/ Next
    \/ DeleteAnyUser
    \/ SetAnyView

DirectSpec == Init /\ [][DirectNext]_vars

\* ------------------------------------------------------------------ claims

\* C1: the summary a mounted session hands to finishQuiz has score = 100 *
\* (number of asked questions answered correctly) / 10; ten correct answers
\* give 100, none gives 0.
C1_ScoreCountsCorrectAnswers ==
    [][(mounted /\ Len(handed') > Len(handed)) =>
          handed'[Len(handed')].score =
              (100 * Cardinality(answeredOk)) \div TOTAL_QUESTIONS]_vars

\* C2: every summary handed to finishQuiz holds exactly 10 results, the k-th
\* being the result of the k-th question asked, the 10th included.
C2_SummaryHoldsTenResults ==
    [][Len(handed') > Len(handed) =>
          LET summary == handed'[Len(handed')]
          IN  /\ Len(summary.results) = TOTAL_QUESTIONS
              /\ mounted => \A k \in 1..TOTAL_QUESTIONS :
                               summary.results[k].question = asked[k]]_vars

\* C3: a question records one result and schedules one advance, whichever of
\* submission and timer expiry comes first and wherever the re-render falls:
\* never more results than questions shown, never two advances pending.
C3_OneResultPerQuestion ==
    mounted => (Len(results) <= questionIndex /\ Len(timeouts) <= 1)

\* C4: once the user has exited the session, nothing of it is persisted or
\* shown: no row is inserted, quizResults stays absent, view stays dashboard.
C4_ExitDiscardsSession ==
    exited = "during" =>
        (progress = <<>> /\ quizResults = Null /\ view = "dashboard")

\* C5: finishQuiz(summary) invoked while currentUser is absent or is no student
\* is a no-op: quizResults, view and progressData stay as they are, no row is
\* inserted and no insert is issued.
C5_FinishQuizRejectsNonStudent ==
    [][(Len(handed') > Len(handed)
          /\ (currentUser = Null \/ currentUser.role # "student"))
          => UNCHANGED <<quizResults, view, progress, progressData, procs>>]_vars

\* C6 as stated: view becomes results only at the step that completes the
\* progress refresh following a completed insert of the AttemptRecord.
C6_ResultsOnlyAfterInsertAndRefresh ==
    [][(view' = "results" /\ view # "results") =>
          \E i \in 1..MaxInflight :
              /\ procs[i] # Idle
              /\ procs[i].op = "finishQuiz" /\ procs[i].pc = "selectProgress"
              /\ procs[i].data # Null
              /\ procs'[i] = Idle]_vars

\* C6, amended: a finishQuiz call by a student issues exactly one insert, with
\* the caller's id and the summary's operation, stage, score and total time;
\* the table grows only by that row, once per call, when the insert succeeds;
\* and view becomes results only when the call ends: after the refresh that
\* follows a successful insert has completed, or at once when the insert failed
\* (then no row is added).
C6_OneInsertThenResults ==
    [][/\ (Len(handed') > Len(handed)
            /\ Head(timeouts).currentUser # Null
            /\ Head(timeouts).currentUser.role = "student")
          => \E i \in 1..MaxInflight :
                /\ procs[i] = Idle
                /\ procs'[i] = [op |-> "finishQuiz", pc |-> "insert",
                                currentUser |-> Head(timeouts).currentUser,
                                summary |-> handed'[Len(handed')], data |-> Null]
                /\ \A j \in 1..MaxInflight \ {i} : procs'[j] = procs[j]
       /\ Len(progress') > Len(progress)
          => \E i \in 1..MaxInflight :
                /\ procs[i] # Idle
                /\ procs[i].op = "finishQuiz" /\ procs[i].pc = "insert"
                /\ progress' = Append(progress,
                      [user_id |-> procs[i].currentUser.id,
                       operation |-> procs[i].summary.settings.operation,
                       stage |-> procs[i].summary.settings.stage,
                       score |-> procs[i].summary.score,
                       total_time |-> procs[i].summary.totalTime])
                /\ procs'[i] # Idle /\ procs'[i].pc = "selectProgress"
       /\ \A i \in 1..MaxInflight :
             (procs[i] # Idle /\ procs[i].op = "finishQuiz"
                /\ procs[i].pc = "selectProgress")
             => (procs'[i] = Idle \/ procs'[i].pc = "selectProgress")
       /\ (view' = "results" /\ view # "results")
          => \E i \in 1..MaxInflight :
                /\ procs[i] # Idle
                /\ procs[i].op = "finishQuiz"
                /\ procs'[i] = Idle
                /\ \/ procs[i].pc = "selectProgress" /\ procs[i].data # Null
                   \/ procs[i].pc = "insert" /\ progress' = progress]_vars

\* C6, reached: a student's finishQuiz has inserted its row, the refresh has
\* rebuilt progressData from it and the results are shown.
C6_Witness ==
    /\ view = "results"
    /\ quizResults # Null
    /\ Len(progress) = 1
    /\ progress[1].user_id = "s1"
    /\ progressData # EmptyObject

\* C7: currentUser changes only in the auth-event handler: when a notification
\* without session is handled, or when the handler of a notification with a
\* session resumes with the profile. No call of login, logout, signUp, addUser,
\* updateUser, deleteUser, startQuiz, finishQuiz or setView changes it.
C7_OnlyAuthHandlerWritesCurrentUser ==
    [][/\ currentUser' # currentUser
          => \/ /\ notifs # <<>>
                /\ Head(notifs) = NoSession
                /\ notifs' = Tail(notifs)
             \/ \E i \in 1..MaxInflight :
                   /\ procs[i] # Idle
                   /\ procs[i].op = "auth" /\ procs[i].pc = "selectProfile"
                   /\ procs'[i] # Idle /\ procs'[i].pc = "selectUsers"
       /\ (acts' # acts \/ Len(handed') > Len(handed))
          => currentUser' = currentUser]_vars

\* C7, reached: a login was accepted and its notification is not handled yet;
\* currentUser is still absent.
C7_Witness ==
    /\ acts >= 1
    /\ authLog.n >= 1
    /\ notifs # <<>>
    /\ Head(notifs).user # NoId
    /\ currentUser = Null

\* C8: once the handlers of all delivered session notifications have run to
\* completion, currentUser is the user of the notification delivered last
\* (whose profile was loaded), whichever profile load returned first; and
\* currentUser never mixes two users: its email is the email of its id.
C8_LastNotificationWins ==
    /\ currentUser # Null => currentUser.email = EmailOf(currentUser.id)
    /\ (/\ authLog.loaded
        /\ notifs = <<>>
        /\ \A i \in 1..MaxInflight : procs[i] = Idle \/ procs[i].op # "auth")
       => (currentUser # Null /\ currentUser.id = authLog.id)

\* C9: whenever currentUser is absent, the users cache and progressData are
\* empty.
C9_SignedOutCachesEmpty ==
    currentUser = Null => (users = {} /\ progressData = EmptyObject)

\* C10: handling a notification without session sets currentUser to absent,
\* the users cache and progressData to empty and view to login, whatever the
\* state before.
C10_SignOutClears ==
    [][(notifs # <<>> /\ Head(notifs) = NoSession /\ notifs' = Tail(notifs))
          => /\ currentUser' = Null
             /\ users' = {}
             /\ progressData' = EmptyObject
             /\ view' = "login"]_vars

\* C10, reached: a sign-out was handled after somebody had been signed in (the
\* Header that offers logout is shown to a signed-in user only).
C10_Witness ==
    /\ authLog.n >= 2
    /\ authLog.id = NoId
    /\ acts >= 1
    /\ currentUser = Null
    /\ view = "login"

\* C11: the handler of a notification with a session, when the profile load
\* succeeds, sets currentUser to the profile row with the session's email and
\* view to dashboard whatever view was; then it applies the users read to the
\* users cache, and after that the progress read to progressData.
C11_SignInLoadsProfileThenRefreshes ==
    [][\A i \in 1..MaxInflight :
          (procs[i] # Idle /\ procs[i].op = "auth" /\ procs'[i] # procs[i]) =>
             CASE procs[i].pc = "selectProfile" ->
                    LET rows == {p \in profiles : p.id = procs[i].session.user}
                    IN  (rows # {} /\ faults' = faults) =>
                           /\ \E p \in rows :
                                 currentUser' = [id |-> p.id, name |-> p.name,
                                                 role |-> p.role, child_id |-> p.child_id,
                                                 email |-> procs[i].session.email]
                           /\ view' = "dashboard"
                           /\ UNCHANGED <<users, progressData>>
                           /\ procs'[i] # Idle
                           /\ procs'[i].pc = "selectUsers" /\ procs'[i].data = Null
               [] procs[i].pc = "selectUsers" /\ procs[i].data # Null ->
                    /\ users' = IF procs[i].data.error THEN users ELSE procs[i].data.rows
                    /\ UNCHANGED progressData
                    /\ procs'[i] # Idle
                    /\ procs'[i].pc = "selectProgress" /\ procs'[i].data = Null
               [] procs[i].pc = "selectProgress" /\ procs[i].data # Null ->
                    /\ progressData' = IF procs[i].data.error THEN progressData
                                       ELSE transformLoop(procs[i].data.rows, EmptyObject)
                    /\ UNCHANGED users
                    /\ procs'[i] = Idle
               [] OTHER -> procs'[i] # Idle /\ procs'[i].pc = procs[i].pc]_vars

\* C11, reached: a session was announced during a quiz; its handler loaded
\* the profile, left the quiz for the dashboard and has finished both
\* refreshes.
C11_Witness ==
    /\ authLog.loaded
    /\ authLog.from = "quiz"
    /\ view = "dashboard"
    /\ ~mounted
    /\ currentUser # Null
    /\ currentUser.id = authLog.id
    /\ users # {}
    /\ \A i \in 1..MaxInflight : procs[i] = Idle \/ procs[i].op # "auth"

\* C12: signUp goes on to the update that links the child exactly when the
\* identity was created, the role is parent and a child id was given; when that
\* update fails, signUp ends (no retry) returning failure with the composite
\* message, which differs from the message of a rejected creation, and the
\* created identity and its profile stay.
C12_LinkOnlyForParentWithChild ==
    [][\A i \in 1..MaxInflight :
          (procs[i] # Idle /\ procs[i].op = "signUp" /\ procs'[i] # procs[i]) =>
             CASE procs[i].pc = "signUp" ->
                    (procs'[i] # Idle /\ procs'[i].pc = "link")
                       <=> (/\ procs[i].form.id \in identities' \ identities
                            /\ procs[i].form.role = "parent"
                            /\ procs[i].form.childId # NoId)
               [] procs[i].pc = "link" ->
                    faults' > faults =>
                       /\ returned'.k = returned.k + 1
                       /\ returned'.value =
                             [success |-> FALSE,
                              message |-> <<"User created, but failed to link child: ",
                                            ErrorMessage("link")>>]
                       /\ returned'.value.message # <<ErrorMessage("signUp")>>
                       /\ procs'[i] = Idle
                       /\ UNCHANGED <<identities, profiles>>
               [] OTHER -> TRUE]_vars

\* C12, reached: a parent's identity was created, the link failed and signUp
\* returned the composite failure; the identity and its unlinked profile exist.
C12_Witness ==
    /\ returned.value # Undefined
    /\ ~returned.value.success
    /\ Len(returned.value.message) = 2
    /\ "n1" \in identities
    /\ \E p \in profiles : p.id = "n1" /\ p.role = "parent" /\ p.child_id = NoId

\* C13: a login or a signUp that the auth collaborator rejects returns
\* success = false with the collaborator's message as it is, issues no further
\* remote call, announces nothing, and leaves the controller state and the
\* store as they were.
C13_RejectedAuthChangesNothing ==
    [][/\ (acts' # acts /\ faults' # faults)
          => /\ returned' = [k |-> returned.k + 1, op |-> "login",
                              value |-> [success |-> FALSE,
                                         message |-> <<ErrorMessage("signInWithPassword")>>]]
             /\ UNCHANGED <<ctlVars, storeVars, procs>>
       /\ \A i \in 1..MaxInflight :
             (/\ procs[i] # Idle /\ procs[i].op = "signUp" /\ procs[i].pc = "signUp"
              /\ procs'[i] # procs[i] /\ faults' # faults)
             => /\ returned' = [k |-> returned.k + 1, op |-> procs[i].caller,
                                 value |-> [success |-> FALSE,
                                            message |-> <<ErrorMessage("signUp")>>]]
                /\ procs' = [procs EXCEPT ![i] = Idle]
                /\ UNCHANGED <<ctlVars, storeVars>>]_vars

\* C13, reached: a login was rejected and returned the collaborator's message;
\* nobody is signed in and nothing is in flight.
C13_Witness ==
    /\ returned.op = "login"
    /\ returned.value = [success |-> FALSE,
                         message |-> <<ErrorMessage("signInWithPassword")>>]
    /\ currentUser = Null
    /\ notifs = <<>>
    /\ \A i \in 1..MaxInflight : procs[i] = Idle

\* C14: when a deleteUser(id) call returns, id is in neither the users cache
\* nor the progress index.
C14_DeletedIdLeavesCaches ==
    [][\A i \in 1..MaxInflight :
          (/\ procs[i] # Idle /\ procs[i].op = "deleteUser"
           /\ procs'[i] = Idle)
          => /\ procs[i].userId \notin {u.id : u \in users'}
             /\ procs[i].userId \notin DOMAIN progressData']_vars

\* C15: a deleteUser of which exactly one of the two deletions failed returns
\* to its caller an outcome other than the plain completion, naming the phase
\* that failed.
C15_PartialDeleteReported ==
    [][\A i \in 1..MaxInflight :
          (/\ procs[i] # Idle /\ procs[i].op = "deleteUser"
           /\ procs'[i] = Idle
           /\ Cardinality(procs[i].failed \cap {"profile", "progress"}) = 1)
          => /\ returned'.op = "deleteUser"
             /\ returned'.value # Undefined]_vars

\* C16: the controller's deleteUser, called with the id of the signed-in user,
\* starts no deletion.
C16_SelfDeleteRejected ==
    [][\A i \in 1..MaxInflight :
          (/\ procs[i] = Idle /\ procs'[i] # Idle
           /\ procs'[i].op = "deleteUser")
          => (currentUser = Null \/ procs'[i].userId # currentUser.id)]_vars

\* C17: deleteUser(u) leaves u's auth identity in place, and when it returns
\* the store holds no profile and no progress row of u; a session notification
\* whose user has no profile row changes neither currentUser nor view.
C17_DeletedUserHasNoProfile ==
    [][\A i \in 1..MaxInflight :
          /\ (/\ procs[i] # Idle /\ procs[i].op = "deleteUser"
              /\ procs'[i] # procs[i])
             => /\ identities' = identities
                /\ procs'[i] = Idle
                   => /\ \A p \in profiles' : p.id # procs[i].userId
                      /\ \A k \in 1..Len(progress') :
                            progress'[k].user_id # procs[i].userId
          /\ (/\ procs[i] # Idle /\ procs[i].op = "auth"
              /\ procs[i].pc = "selectProfile" /\ procs'[i] # procs[i]
              /\ \A p \in profiles : p.id # procs[i].session.user)
             => UNCHANGED <<currentUser, view>>]_vars

\* C18: a call that resumes after a failed read of the profiles or of the
\* progress rows leaves the users cache and the progress cache exactly as
\* they were.
C18_FailedReadKeepsCaches ==
    [][\A i \in 1..MaxInflight :
          (/\ procs[i] # Idle /\ procs[i].pc \in {"selectUsers", "selectProgress"}
           /\ procs[i].data # Null /\ procs[i].data.error
           /\ procs'[i] # procs[i])
          => UNCHANGED <<users, progressData>>]_vars

\* C18, reached: deleteUser's read of the profiles failed and the users cache
\* still holds its rows.
C18_Witness ==
    \E i \in 1..MaxInflight :
       /\ procs[i] # Idle /\ procs[i].op = "deleteUser"
       /\ "users" \in procs[i].failed
       /\ users # {}

\* C19: updateUser's update changes, in the store, nothing but name, role and
\* child_id of the profile row with the given id (no identity, no other row);
\* when it succeeds updateUser reads the profiles into the users cache and
\* returns success; when it fails updateUser returns the error message at once,
\* without a read and with the users cache as it was.
C19_UpdateUserWritesProfileOnly ==
    [][\A i \in 1..MaxInflight :
          (procs[i] # Idle /\ procs[i].op = "updateUser" /\ procs'[i] # procs[i]) =>
             CASE procs[i].pc = "update" ->
                    /\ UNCHANGED <<users, identities, progress>>
                    /\ IF faults' = faults
                       THEN /\ \A p \in profiles :
                                  IF p.id = procs[i].updatedUser.id
                                  THEN [id |-> p.id,
                                        name |-> procs[i].updatedUser.name,
                                        role |-> procs[i].updatedUser.role,
                                        child_id |-> procs[i].updatedUser.childId]
                                           \in profiles'
                                  ELSE p \in profiles'
                            /\ Cardinality(profiles') = Cardinality(profiles)
                            /\ procs'[i] # Idle
                            /\ procs'[i].pc = "selectUsers" /\ procs'[i].data = Null
                            /\ UNCHANGED returned
                       ELSE /\ UNCHANGED profiles
                            /\ procs'[i] = Idle
                            /\ returned' = [k |-> returned.k + 1, op |-> "updateUser",
                                            value |-> [success |-> FALSE,
                                                       message |-> <<ErrorMessage("update")>>]]
               [] procs[i].pc = "selectUsers" /\ procs[i].data # Null ->
                    /\ users' = IF procs[i].data.error THEN users ELSE procs[i].data.rows
                    /\ UNCHANGED storeVars
                    /\ procs'[i] = Idle
                    /\ returned'.op = "updateUser" /\ returned'.value.success
               [] OTHER -> UNCHANGED <<users, storeVars, returned>>]_vars

\* C19, reached: updateUser returned success and the edited role is both in the
\* store and in the users cache.
C19_Witness ==
    /\ returned.op = "updateUser"
    /\ returned.value.success
    /\ \E u \in users : u.role = "teacher"
    /\ \E p \in profiles : p.role = "teacher"

\* C20: addUser runs signUp; when signUp reports success addUser goes on to
\* read the profiles into the users cache and then returns its own success;
\* when signUp reports failure, at the creation or at the link, addUser returns
\* signUp's result as it is, without a read and with the users cache as it was.
C20_AddUserRefreshesOnSuccess ==
    [][\A i \in 1..MaxInflight :
          (/\ procs[i] # Idle /\ procs[i].op = "signUp" /\ procs[i].caller = "addUser"
           /\ procs'[i] # procs[i]) =>
             CASE procs[i].pc \in {"signUp", "link"} ->
                    /\ UNCHANGED users
                    /\ IF faults' = faults
                       THEN /\ procs'[i] # Idle
                            /\ procs'[i].pc \in {"link", "selectUsers"}
                            /\ procs'[i].data = Null
                            /\ UNCHANGED returned
                       ELSE /\ procs'[i] = Idle
                            /\ returned' =
                                  [k |-> returned.k + 1, op |-> "addUser",
                                   value |->
                                      [success |-> FALSE,
                                       message |->
                                          IF procs[i].pc = "signUp"
                                          THEN <<ErrorMessage("signUp")>>
                                          ELSE <<"User created, but failed to link child: ",
                                                 ErrorMessage("link")>>]]
               [] procs[i].pc = "selectUsers" /\ procs[i].data # Null ->
                    /\ users' = IF procs[i].data.error THEN users ELSE procs[i].data.rows
                    /\ procs'[i] = Idle
                    /\ returned' =
                          [k |-> returned.k + 1, op |-> "addUser",
                           value |-> [success |-> TRUE,
                                      message |-> <<"User added successfully. Admin will be logged out.">>]]
               [] OTHER -> UNCHANGED <<users, returned>>]_vars

\* C20, reached: addUser returned success and the new user is in the users cache.
C20_Witness ==
    /\ returned.op = "addUser"
    /\ returned.value.success
    /\ \E u \in users : u.id = "n1"

\* ------------------------------------------- the normalizer on its own

\* Rows a fetch of the progress table returns at most.
MaxFetched == 3

\* The rows the normalizer is given: attempts of two students, in two of the
\* operations of OPERATIONS, at two stages, with the lowest and the highest
\* score.
FetchedStudents == {"s1", "s2"}
FetchedOperations == {"addition", "subtraction"}
FetchedStages == {1, 2}
FetchedRecords ==
    {[user_id |-> s, operation |-> o, stage |-> n, score |-> sc, total_time |-> 0] :
        s \in FetchedStudents, o \in FetchedOperations, n \in FetchedStages,
        sc \in {0, 100}}

FetchedLists == UNION {[1..n -> FetchedRecords] : n \in 0..MaxFetched}

\* The index a refresh finds: empty, or that of an earlier fetch.
EarlierIndexes ==
    {EmptyObject,
     transformLoop(<<[user_id |-> "s2", operation |-> "multiplication", stage |-> 3,
                      score |-> 50, total_time |-> 0]>>, EmptyObject)}

NormInit ==
    /\ progress \in FetchedLists
    /\ progressData \in EarlierIndexes
    /\ currentUser = [id |-> "a1", name |-> "Ada", role |-> "admin",
                      child_id |-> NoId, email |-> EmailOf("a1")]
    /\ view = "dashboard"
    /\ isLoading = FALSE
    /\ users = {Admin1, Student1}
    /\ quizSettings = Null
    /\ quizResults = Null
    /\ identities = {"a1", "s1"}
    /\ profiles = {Admin1, Student1}
    /\ authLog = [n |-> 1, id |-> "a1", loaded |-> TRUE, from |-> "login"]
    /\ acts = 0
    /\ faults = 0
    /\ notifs = <<>>
    /\ procs = [i \in 1..MaxInflight |-> Idle]
    /\ mounted = FALSE
    /\ mountPending = FALSE
    /\ question = Null
    /\ questionIndex = 0
    /\ results = <<>>
    /\ isAnswered = FALSE
    /\ rendered = NoRender
    /\ timer = TimerOff
    /\ timeouts = <<>>
    /\ rng \in Seeds
    /\ odd = 0
    /\ elapsed = 0
    /\ asked = <<>>
    /\ answeredOk = {}
    /\ handed = <<>>
    /\ exited = "no"
    /\ returned = [k |-> 0, op |-> "none", value |-> Undefined]
    /\ reads = NoReads

\* fetchAllProgressData, from the call to its end, when the fetch succeeds.
fetchAllProgressDataDone ==
    /\ fetchAllProgressData([error |-> FALSE, rows |-> progress])
    /\ UNCHANGED <<quizVars, isLoading, users, currentUser, view, quizSettings, quizResults,
                   storeVars, procs, histVars, auxVars>>
    /\ UNCHANGED reads

NormNext == fetchAllProgressDataDone

NormSpec == NormInit /\ [][NormNext]_vars

\* The positions in the fetched list of the records of student s, operation o
\* and stage n.
RecordsOf(rows, s, o, n) ==
    {k \in 1..Len(rows) :
        rows[k].user_id = s /\ rows[k].operation = o /\ rows[k].stage = n}

LastOf(ks) == CHOOSE k \in ks : \A j \in ks : j <= k

\* C21: after a progress refresh that succeeded, the index holds for every
\* student, operation and stage with a record in the fetched list the score of
\* the last such record, and it has no student that the fetched list has not:
\* nothing of the index the refresh found is kept.
C21_LastRecordWins ==
    [][/\ \A s \in FetchedStudents, o \in FetchedOperations, n \in FetchedStages :
             RecordsOf(progress, s, o, n) # {} =>
                /\ s \in DOMAIN progressData'
                /\ o \in DOMAIN progressData'[s]
                /\ StageKey(n) \in DOMAIN progressData'[s][o]
                /\ progressData'[s][o][StageKey(n)] =
                      progress[LastOf(RecordsOf(progress, s, o, n))].score
       /\ \A s \in DOMAIN progressData' :
             \E k \in 1..Len(progress) : progress[k].user_id = s]_vars

\* C21, reached: the two fetched records of s1 for one operation and stage
\* carry different scores, and the index, rebuilt, holds s1 alone with the
\* later score.
C21_Witness ==
    /\ Len(progress) >= 2
    /\ progress[1].user_id = progress[2].user_id
    /\ progress[1].operation = progress[2].operation
    /\ progress[1].stage = progress[2].stage
    /\ progress[1].score = 100 /\ progress[2].score = 0
    /\ RecordsOf(progress, progress[1].user_id, progress[1].operation, progress[1].stage)
          = {1, 2}
    /\ progress[1].user_id = "s1"
    /\ DOMAIN progressData = {"s1"}
    /\ progressData["s1"][progress[1].operation][StageKey(progress[1].stage)] = 0

\* C22: after a progress refresh that succeeded, a student is a key of the
\* index exactly when the fetched list has a record of that student, an
\* operation is a key under a student exactly when it has a record of both, and
\* a stage is a key under them exactly when it has a record of the three; the
\* empty list gives the empty index.
C22_KeysExactlyFromRecords ==
    [][/\ progress = <<>> => progressData' = EmptyObject
       /\ DOMAIN progressData' = {progress[k].user_id : k \in 1..Len(progress)}
       /\ \A s \in DOMAIN progressData' :
             /\ DOMAIN progressData'[s] =
                   {progress[k].operation :
                       k \in {j \in 1..Len(progress) : progress[j].user_id = s}}
             /\ \A o \in DOMAIN progressData'[s] :
                   DOMAIN progressData'[s][o] =
                      {StageKey(progress[k].stage) :
                          k \in {j \in 1..Len(progress) :
                                    progress[j].user_id = s /\ progress[j].operation = o}}]_vars

\* C22, reached: the fetched list has records of s1 for subtraction only, and
\* of nobody else, after a refresh that had found an index with s2: the index
\* has the one student with the one operation.
C22_Witness ==
    /\ progress # <<>>
    /\ \A k \in 1..Len(progress) :
          progress[k].user_id = "s1" /\ progress[k].operation = "subtraction"
    /\ DOMAIN progressData = {"s1"}
    /\ DOMAIN progressData["s1"] = {"subtraction"}

\* C30: when the handler loads the profile of a parent whose stored profile
\* links a student c, currentUser.childId is c and the parent dashboard does
\* not show its no-child-linked message.
C30_ParentSeesLinkedChild ==
    [][\A i \in 1..MaxInflight :
          (/\ procs[i] # Idle /\ procs[i].op = "auth" /\ procs[i].pc = "selectProfile"
           /\ procs'[i] # procs[i] /\ faults' = faults)
          => \A p \in profiles :
                (p.id = procs[i].session.user /\ p.role = "parent" /\ p.child_id # NoId)
                => /\ childId(currentUser') = p.child_id
                   /\ ParentDashboard' # "NoChildLinked"]_vars

\* ------------------------------------------- the generator on its own

\* The operations and stages SelectQuizScreen offers, and stage 3 of
\* subtraction, which generateQuestion accepts as well.
GenSettings ==
    {[operation |-> o, stage |-> n, timer |-> 8] :
        o \in {"addition", "subtraction", "multiplication"}, n \in 1..3}

GenInit ==
    /\ quizSettings \in GenSettings
    /\ currentUser = [id |-> "s1", name |-> "Sam", role |-> "student",
                      child_id |-> NoId, email |-> EmailOf("s1")]
    /\ view = "quiz"
    /\ isLoading = FALSE
    /\ users = {Student1}
    /\ progressData = EmptyObject
    /\ quizResults = Null
    /\ identities = {"s1"}
    /\ profiles = {Student1}
    /\ progress = <<>>
    /\ authLog = [n |-> 1, id |-> "s1", loaded |-> TRUE, from |-> "login"]
    /\ acts = 0
    /\ faults = 0
    /\ notifs = <<>>
    /\ procs = [i \in 1..MaxInflight |-> Idle]
    /\ mounted = TRUE
    /\ mountPending = TRUE
    /\ question = Null
    /\ questionIndex = 0
    /\ results = <<>>
    /\ isAnswered = FALSE
    /\ rendered = Closure(quizSettings, currentUser, Null, 0, <<>>, FALSE)
    /\ timer = TimerOff
    /\ timeouts = <<>>
    /\ rng \in Seeds
    /\ odd = 0
    /\ elapsed = 0
    /\ asked = <<>>
    /\ answeredOk = {}
    /\ handed = <<>>
    /\ exited = "no"
    /\ returned = [k |-> 0, op |-> "none", value |-> Undefined]
    /\ reads = NoReads

\* generateQuestion(quizSettings.operation, quizSettings.stage) with any two
\* values of Math.random().
Generate ==
    /\ \E r1 \in 0..(RandRes - 1), r2 \in 0..(RandRes - 1) :
          question' = generateQuestion(quizSettings.operation, quizSettings.stage, r1, r2)
    /\ UNCHANGED <<mounted, mountPending, questionIndex, results, isAnswered, rendered,
                   timer, elapsed, rng, asked, answeredOk, timeouts, odd>>
    /\ UNCHANGED <<ctlVars, storeVars, procs, histVars, auxVars>>
    /\ UNCHANGED reads

GenNext == Generate

GenSpec == GenInit /\ [][GenNext]_vars

\* C28: a question of addition or multiplication has both operands inside the
\* ranges of its stage, and the sum, respectively the product, of the two as
\* its answer.
C28_OperandsWithinStageRanges ==
    (question # Null /\ quizSettings.operation \in {"addition", "multiplication"}) =>
       LET num1 == question.text[1]
           num2 == question.text[3]
           stage == quizSettings.stage
       IN  IF quizSettings.operation = "addition"
           THEN /\ stage = 1 => num1 \in 0..5 /\ num2 \in 0..5
                /\ stage = 2 => num1 \in 0..10 /\ num2 \in 0..10
                /\ stage >= 3 => num1 \in 0..20 /\ num2 \in 0..20
                /\ question.answer = num1 + num2
           ELSE /\ stage = 1 => num1 \in 1..5 /\ num2 \in 1..5
                /\ stage = 2 => num1 \in 6..10 /\ num2 \in 1..10
                /\ stage >= 3 => num1 \in 1..10 /\ num2 \in 1..10
                /\ question.answer = num1 * num2

\* C28, reached: addition at stage 3 with the largest and the smallest operand.
C28_Witness ==
    /\ question # Null
    /\ quizSettings.operation = "addition" /\ quizSettings.stage = 3
    /\ question.text = <<20, "+", 0>>
    /\ question.answer = 20

\* C29: a question of subtraction has its subtrahend between 0 and the
\* minuend, the difference, never negative, as its answer, and its minuend in
\* 1..10 at stage 1 and in 1..20 at the stages above.
C29_SubtractionNeverNegative ==
    (question # Null /\ quizSettings.operation = "subtraction") =>
       LET num1 == question.text[1]
           num2 == question.text[3]
       IN  /\ num2 \in 0..num1
           /\ question.answer = num1 - num2
           /\ question.answer >= 0
           /\ quizSettings.stage = 1 => num1 \in 1..10
           /\ quizSettings.stage >= 2 => num1 \in 1..20

\* C29, reached: subtraction at stage 2 with the largest minuend taken away
\* whole.
C29_Witness ==
    /\ question # Null
    /\ quizSettings.operation = "subtraction" /\ quizSettings.stage = 2
    /\ question.text = <<20, "-", 20>>
    /\ question.answer = 0

\* C23: every recorded result has timeTaken at most the timer of the session
\* (both in milliseconds here).
C23_TimeTakenClamped ==
    quizSettings # Null =>
       \A k \in 1..Len(results) : results[k].timeTaken <= 1000 * quizSettings.timer

\* C24: the result recorded when the countdown ends a question has no answer
\* and is not correct; and every recorded result is correct exactly when its
\* parsed answer is a number equal to the answer of its question.
C24_ExpiryRecordsNoAnswer ==
    [][/\ (/\ timer.active /\ ~timer'.active /\ mounted'
           /\ Len(results') = Len(results) + 1)
          => /\ results'[Len(results')].userAnswer = Null
             /\ ~results'[Len(results')].isCorrect
       /\ \A k \in 1..Len(results') :
             results'[k].isCorrect <=>
                /\ results'[k].userAnswer # Null
                /\ results'[k].userAnswer.kind = "number"
                /\ results'[k].userAnswer.val = results'[k].question.answer]_vars

\* C24, reached: a session holds a result of an expired countdown, without
\* answer and not correct, after a correct one.
C24_Witness ==
    /\ Len(results) >= 2
    /\ results[1].isCorrect
    /\ results[1].userAnswer = [kind |-> "number", val |-> results[1].question.answer]
    /\ results[2].userAnswer = Null
    /\ ~results[2].isCorrect
    /\ results[2].timeTaken >= 1000 * quizSettings.timer

\* The sum of timeTaken over the results rs.
RECURSIVE TimeOver(_, _)
TimeOver(rs, ks) ==
    IF ks = {} THEN 0
    ELSE LET k == CHOOSE j \in ks : TRUE
         IN  rs[k].timeTaken + TimeOver(rs, ks \ {k})

\* C25: the totalTime of every summary handed to finishQuiz is the sum of
\* timeTaken over the results of that summary.
C25_TotalTimeIsSum ==
    \A k \in 1..Len(handed) :
       handed[k].totalTime = TimeOver(handed[k].results, 1..Len(handed[k].results))

\* C25, reached: a summary was handed over whose results took time.
C25_Witness ==
    /\ handed # <<>>
    /\ Len(handed[1].results) >= 2
    /\ handed[1].totalTime > 0
    /\ \E k \in 1..Len(handed[1].results) :
          handed[1].results[k].timeTaken = handed[1].totalTime

\* C26: a navigation of the signed-in user (startQuiz, Exit, a button's
\* setView) that starts a quiz leaves quizResults absent, and one that leads
\* from the quiz or its results to the dashboard or to the quiz selection
\* leaves both quizSettings and quizResults absent.
C26_QuizStateDiscarded ==
    [][(/\ view' # view /\ procs' = procs /\ notifs' = notifs
        /\ currentUser # Null)
       => /\ view' = "quiz" => quizResults' = Null
          /\ (view \in {"quiz", "results"} /\ view' \in {"dashboard", "selectQuiz"})
             => /\ quizSettings' = Null
                /\ quizResults' = Null]_vars

\* What view = dashboard renders for a signed-in user of the given role.
DashboardOf(role) ==
    CASE role = "admin" -> "AdminDashboard"
      [] role = "teacher" -> "TeacherDashboard"
      [] role = "student" -> "StudentDashboard"
      [] role = "parent" -> "ParentDashboard"
      [] OTHER -> "LoginScreen"

\* C27: with a user signed in, view = quiz without quizSettings renders the
\* quiz selection, view = results without quizResults renders the dashboard of
\* the user's role, and neither QuizScreen nor ResultsScreen is rendered
\* without its settings or summary.
C27_FallbackScreens ==
    (~isLoading /\ currentUser # Null) =>
       /\ (view = "quiz" /\ quizSettings = Null) => Screen = "SelectQuizScreen"
       /\ (view = "results" /\ quizResults = Null) => Screen = DashboardOf(currentUser.role)
       /\ Screen = "QuizScreen" => quizSettings # Null
       /\ Screen = "ResultsScreen" => quizResults # Null

\* C31: in a session that has not been left, the question index is 1 once the
\* mount effect has run, changes only by a completed reveal delay, which adds
\* exactly 1 and sets a newly generated question and isAnswered = false, never
\* exceeds 10, and while question k awaits its answer exactly k-1 results are
\* recorded.
C31_IndexCountsQuestions ==
    /\ []((mounted /\ exited = "no") =>
             /\ questionIndex <= TOTAL_QUESTIONS
             /\ (~mountPending => questionIndex >= 1)
             /\ (question # Null /\ ~isAnswered) => Len(results) = questionIndex - 1)
    /\ [][(mounted /\ mounted' /\ exited = "no" /\ questionIndex' # questionIndex) =>
             /\ questionIndex' = questionIndex + 1
             /\ isAnswered' = FALSE
             /\ Len(asked') = Len(asked) + 1
             /\ question' = asked'[Len(asked')]
             /\ (mountPending /\ questionIndex = 0) \/ timeouts' = Tail(timeouts)]_vars

C33_OlderResponseNeverOverwrites ==
    [][\A i \in 1..MaxInflight :
          (/\ Waits(procs[i])
           /\ procs[i].data # Null /\ ~procs[i].data.error
           /\ procs'[i] # procs[i])
          => /\ (procs[i].pc = "selectUsers" /\ reads.at[i] < reads.users)
                   => users' = users
             /\ (procs[i].pc = "selectProgress" /\ reads.at[i] < reads.progress)
                   => progressData' = progressData]_vars

\* C34: one quiz session passes at most one summary to finishQuiz, and does so
\* only when a reveal delay elapses that was started by the answer or the
\* expiry of the 10th question.
C34_FinishQuizOnce ==
    /\ [](Len(handed) <= 1)
    /\ [][Len(handed') > Len(handed) =>
             /\ timeouts # <<>> /\ timeouts' = Tail(timeouts)
             /\ Head(timeouts).questionIndex = TOTAL_QUESTIONS]_vars

\* C35: under fair interval callbacks, timeouts and renders, a session whose
\* timer is positive hands a summary to finishQuiz unless it is left, also
\* when the user never submits an answer.
C35_SessionEventuallyFinishes ==
    <>(handed # <<>> \/ exited # "no")

\* C35, reached: a summary has been handed to finishQuiz by a session in which
\* every recorded result is that of an expired countdown.
C35_Witness ==
    /\ handed # <<>>
    /\ exited = "no"
    /\ quizSettings.timer > 0
    /\ \A k \in 1..Len(handed[1].results) : handed[1].results[k].userAnswer = Null

\* C36: when the insert of a student's finishQuiz fails, the call ends there:
\* view becomes results and quizResults keeps the summary it was set to (that
\* of the call, or of a call that followed it), the progress table and
\* progressData stay as they are, no read is issued, and nothing is returned
\* to the caller.
C36_FailedInsertStillShowsResults ==
    [][\A i \in 1..MaxInflight :
          (/\ procs[i] # Idle
           /\ procs[i].op = "finishQuiz" /\ procs[i].pc = "insert"
           /\ procs'[i] # procs[i]
           /\ faults' > faults)
          => /\ procs[i].currentUser.role = "student"
             /\ view' = "results"
             /\ quizResults' = quizResults
             /\ quizResults = handed[Len(handed)]
             /\ procs[i].summary \in {handed[k] : k \in 1..Len(handed)}
             /\ progress' = progress
             /\ progressData' = progressData
             /\ procs'[i] = Idle
             /\ reads' = reads
             /\ returned' = returned]_vars

\* C36, reached: the insert of the one finishQuiz call failed, and the results
\* are shown over an empty table and an index without the attempt.
C36_Witness ==
    /\ view = "results"
    /\ quizResults # Null /\ handed = <<quizResults>>
    /\ faults = 1
    /\ progress = <<>>
    /\ progressData = EmptyObject
    /\ \A i \in 1..MaxInflight : procs[i] = Idle

\* C37: whenever currentUser is absent, view is login or signUp, also when a
\* finishQuiz that began before the sign-out completes after the sign-out
\* notification has been handled.
C37_SignedOutViewIsLoginOrSignUp ==
    currentUser = Null => view \in {"login", "signUp"}

\* C38: a deleteUser call goes through the deletion of the profile, the
\* deletion of the progress rows, the read of the profiles and the read of the
\* progress rows, in this order and whatever the outcome of each; the deletion
\* of the progress rows, when it succeeds, removes every row of the user, also
\* after a failed deletion of the profile.
C38_DeleteUserRunsAllSteps ==
    [][\A i \in 1..MaxInflight :
          /\ (procs[i] = Idle /\ procs'[i] # Idle /\ procs'[i].op = "deleteUser")
             => procs'[i].pc = "deleteProfile"
          /\ (procs[i] # Idle /\ procs[i].op = "deleteUser" /\ procs'[i] # procs[i])
             => CASE procs[i].pc = "deleteProfile" ->
                        /\ procs'[i] # Idle
                        /\ procs'[i].pc = "deleteProgress"
                        /\ procs'[i].userId = procs[i].userId
                  [] procs[i].pc = "deleteProgress" ->
                        /\ procs'[i] # Idle
                        /\ procs'[i].pc = "selectUsers" /\ procs'[i].data = Null
                        /\ procs'[i].userId = procs[i].userId
                        /\ faults' = faults
                           => \A k \in 1..Len(progress') :
                                 progress'[k].user_id # procs[i].userId
                  [] procs[i].pc = "selectUsers" ->
                        /\ procs'[i] # Idle
                        /\ IF procs[i].data = Null
                           THEN procs'[i].pc = "selectUsers" /\ procs'[i].data # Null
                           ELSE procs'[i].pc = "selectProgress" /\ procs'[i].data = Null
                  [] procs[i].pc = "selectProgress" ->
                        IF procs[i].data = Null
                        THEN /\ procs'[i] # Idle
                             /\ procs'[i].pc = "selectProgress" /\ procs'[i].data # Null
                        ELSE procs'[i] = Idle
                  [] OTHER -> FALSE]_vars

\* C38, reached: the deletion of the profile of s1 failed, and the call went
\* on to delete the row that s1's quiz had inserted and that the progress
\* index still shows.
C38_Witness ==
    \E i \in 1..MaxInflight :
       /\ procs[i] # Idle /\ procs[i].op = "deleteUser"
       /\ procs[i].userId = "s1"
       /\ procs[i].failed = {"profile"}
       /\ procs[i].pc = "selectUsers"
       /\ "s1" \in DOMAIN progressData
       /\ progress = <<>>

\* C39: once a notification without session has been handled, quizSettings
\* and quizResults are absent, so that the next user of the client finds
\* nothing of the previous user's quiz.
C39_SignOutDropsQuizState ==
    [][(notifs # <<>> /\ Head(notifs) = NoSession /\ notifs' = Tail(notifs))
          => (quizSettings' = Null /\ quizResults' = Null)]_vars

\* The handler of the first auth notification reaches its end: the
\* notification carries no session, or its handler leaves its slot.
FirstHandled ==
    \/ /\ authLog.n = 0
       /\ notifs # <<>> /\ Head(notifs) = NoSession
       /\ notifs' = Tail(notifs)
    \/ \E i \in 1..MaxInflight :
          /\ procs[i] # Idle /\ procs[i].op = "auth" /\ procs[i].n = 1
          /\ procs'[i] = Idle

\* C40 (safety): isLoading is true from mount until the handler of the first
\* auth notification has run to its end, it is false from then on, and it
\* never becomes true again.
C40_LoadingUntilFirstHandled ==
    /\ [][(isLoading /\ ~isLoading') => FirstHandled]_vars
    /\ [][FirstHandled => ~isLoading']_vars
    /\ [][isLoading' => isLoading]_vars

\* Every auth notification is delivered, every remote request of a handler is
\* answered, and every handler resumes after the answer.
LoadFairness ==
    /\ WF_vars(onAuthStateChangeSession)
    /\ WF_vars(onAuthStateChangeNoSession)
    /\ \A i \in 1..MaxInflight :
          /\ WF_vars(\E ok \in BOOLEAN : authProfile(i, ok))
          /\ WF_vars(\E ok \in BOOLEAN : selectUsers(i, ok))
          /\ WF_vars(\E ok \in BOOLEAN : selectProgress(i, ok))
          /\ WF_vars(authUsers(i))
          /\ WF_vars(authProgress(i))

LoadSpec == Init /\ [][Next]_vars /\ LoadFairness

\* C40 (liveness): under LoadSpec isLoading eventually becomes false, also
\* when the profile load returns no profile.
C40_EventuallyLoaded == <>(~isLoading)

====
